---- MODULE Spec2Model ----
(***************************************************************************)
(* A model of the chrome-element-screenshot extension: the scroll-segment  *)
(* planner, the long-capture loop and the stitcher of                      *)
(* src/utils/screenshotProcessor.ts, the retry policy of                   *)
(* src/utils/errorHandler.ts and the session pipeline of                   *)
(* src/background/background.ts.                                           *)
(*                                                                         *)
(* Lengths along the scroll axis are kept in fixed point: a scroll offset  *)
(* y is stored as y * Scale (tenths of a CSS pixel), so that the factors   *)
(* 0.8 and 0.9 of the two planners are exact (8/10, 9/10).  Heights of     *)
(* elements (totalHeight, visibleHeight) are whole CSS pixels.             *)
(***************************************************************************)
EXTENDS Integers, Sequences, FiniteSets, TLC

VARIABLES
    elementInfo,      \* the ElementInfo the operation was called with
    scrollSegments,   \* result of ScreenshotProcessor.calculateScrollSegments
    contentSegments,  \* result of the content script's calculateScrollSegments
    planned,          \* which of the two planners have run
    tab,              \* the page: the target element, its geometry and scroll
    devicePixelRatio, \* result of getDevicePixelRatio
    cpc,              \* where ScreenshotProcessor.captureLongScreenshot stands
    segIndex,         \* the loop index i (1-based) of captureLongScreenshot
    shot,             \* screenshotDataUrl of the current iteration
    segments,         \* the LongScreenshotSegment[] built so far
    calls,            \* the external calls issued so far and their replies
    captureResult,    \* what captureLongScreenshot returned or threw
    stitched,         \* what stitchScreenshotSegments returned or threw
    spc,              \* where background captureLongScreenshot stands
    session,          \* the ScreenshotSession object of the current attempt
    sessionInMap,     \* activeSessions holds an entry for the session id
    outerAttempt,     \* `attempt` of the handleError around the pipeline
    stage,            \* the pipeline stage the session is in
    stageAttempt,     \* `attempt` of the handleError around that stage
    timers,           \* pending setTimeout callbacks deleting the entry
    notifications,    \* messages sent to the tab, in order
    downloads,        \* calls of ScreenshotProcessor.downloadScreenshot
    manualSaveStore,  \* chrome.storage.local holds manual_save_<sessionId>
    thrown,           \* the error the session's promise rejected with
    stageError,       \* `lastError` of the handleError around that stage
    hpc,              \* where ErrorHandler.handleError stands
    operation,        \* how the successive calls of `operation` will end
    maxAttempts,      \* config.maxAttempts of handleError
    attempt,          \* `attempt` of handleError
    invocations,      \* calls of `operation` made so far
    delays,           \* the delays handleError has waited, in ms
    delayMs,          \* config.delayMs of handleError
    backoffMultiplier, \* config.backoffMultiplier of handleError
    lastError,        \* `lastError` of handleError
    fallbacks,        \* `fallbacks`: the merged FallbackOptions
    strategiesRun,    \* the fallback strategies attemptFallback has run
    retryableErrors,  \* config.retryableErrors of handleError
    handled,          \* what handleError returned or threw
    errorMessage,     \* error.message handed to classifyError
    classification,   \* what classifyError returned
    dataUrl,          \* the image handed to convertFormat
    options,          \* the ScreenshotOptions handed to convertFormat
    converted,        \* what convertFormat resolved or rejected with
    template,         \* the template handed to generateFilename
    format,           \* the format handed to generateFilename
    filename,         \* what generateFilename returned
    tooltipElement,   \* the content script's tooltipElement
    tooltipTimers,    \* pending setTimeout callbacks of the tooltips
    shown,            \* tooltips shown so far
    dismissals,       \* how error tooltips were removed
    handlers,         \* MessageRouter.handlers: what is registered per type
    request,          \* the MessageRequest handed to MessageRouter.handle
    responses,        \* the responses handle resolved with for the request
    rejections,       \* how many times handle rejected for the request
    sizeInput,        \* the arguments of calculateOptimalSegmentSize
    optimalSize,      \* what calculateOptimalSegmentSize returned
    items,            \* `segments` of processSegmentsProgressively
    enableProgressiveLoading, \* opts.enableProgressiveLoading
    ppc,              \* where processSegmentsProgressively stands
    enableMemoryCleanup, \* opts.enableMemoryCleanup
    now,              \* Date.now(), in ms
    memInfo,          \* performance.memory: the usage ratio, in tenths
    lastMemoryCleanup, \* PerformanceOptimizer.lastMemoryCleanup
    cleanups,         \* the performMemoryCleanup passes made so far
    batchStart,       \* the loop index i of its batches
    processorCalls,   \* the calls of `processor` made so far, in order
    results,          \* `results` of processSegmentsProgressively
    processed,        \* what processSegmentsProgressively settled with
    captures,         \* the captures running on the tab, one per session
    saveRequests,     \* how the calls of handleManualSave ended, in order
    isSelectionMode,  \* the content script's isSelectionMode
    overlayElement,   \* its overlayElement (FALSE for null)
    overlays,         \* overlay elements in the document
    highlightDiv,     \* its highlightDiv (FALSE for null)
    highlights,       \* highlight elements in the document
    listeners,        \* the selection listeners are on the document
    currentHoveredElement, \* its currentHoveredElement (0 for null)
    pendingRequests \* its requests to the background not yet answered

planVars == <<elementInfo, scrollSegments, contentSegments, planned>>

captureVars == <<tab, devicePixelRatio, cpc, segIndex, shot, segments, calls,
                 captureResult, stitched>>

sessionVars == <<spc, session, sessionInMap, outerAttempt, stage, stageAttempt,
                 timers, notifications, downloads, manualSaveStore, thrown,
                 stageError>>

retryVars == <<hpc, operation, maxAttempts, attempt, invocations, delays,
               delayMs, backoffMultiplier,
               lastError, fallbacks, strategiesRun, retryableErrors,
               handled>>

classifyVars == <<errorMessage, classification>>

convertVars == <<dataUrl, options, converted>>

filenameVars == <<template, format, filename>>

tooltipVars == <<tooltipElement, tooltipTimers, shown, dismissals>>

routerVars == <<handlers, request, responses, rejections>>

optimizerVars == <<sizeInput, optimalSize>>

memoryVars == <<enableMemoryCleanup, now, memInfo, lastMemoryCleanup,
                cleanups>>

progressiveVars == <<items, enableProgressiveLoading, ppc, batchStart,
                     processorCalls, results, processed, memoryVars>>

selectionVars == <<isSelectionMode, overlayElement, overlays, highlightDiv,
                   highlights, listeners, currentHoveredElement,
                   pendingRequests>>

extraVars == <<captures, saveRequests, selectionVars>>

utilVars == <<routerVars, optimizerVars, progressiveVars, extraVars>>

\* The state of the operations modelled on their own.
laterVars == <<retryVars, classifyVars, convertVars, filenameVars,
               tooltipVars, utilVars>>

\* What each of these operations leaves alone.
notRetryVars == <<planVars, captureVars, sessionVars, classifyVars,
                  convertVars, filenameVars, tooltipVars, utilVars>>

notClassifyVars == <<planVars, captureVars, sessionVars, retryVars,
                     convertVars, filenameVars, tooltipVars, utilVars>>

notConvertVars == <<planVars, captureVars, sessionVars, retryVars,
                    classifyVars, filenameVars, tooltipVars, utilVars>>

notFilenameVars == <<planVars, captureVars, sessionVars, retryVars,
                     classifyVars, convertVars, tooltipVars, utilVars>>

notTooltipVars == <<planVars, captureVars, sessionVars, retryVars,
                    classifyVars, convertVars, filenameVars, utilVars>>

coreVars == <<planVars, captureVars, sessionVars, retryVars, classifyVars,
              convertVars, filenameVars, tooltipVars, extraVars>>

notRouterVars == <<coreVars, optimizerVars, progressiveVars>>

notOptimizerVars == <<coreVars, routerVars, progressiveVars>>

notProgressiveVars == <<coreVars, routerVars, optimizerVars>>

vars == <<planVars, captureVars, sessionVars, laterVars>>

----------------------------------------------------------------------------
(* Bounds of the model *)

MaxTotalHeight == 48     \* planner inputs: totalHeight
MaxVisibleHeight == 5    \* planner inputs: visibleHeight
MaxVisibleFives == 1     \* captures: visibleHeight is 5, 10, ... 5 * this
MaxScrollHeight == 13    \* captures: scrollHeight of the element
MaxElemTop == 1          \* captures: top edge of the element in the viewport
MaxElemWidth == 2        \* captures: width of the element
MaxDpr == 2              \* captures: device pixel ratio
MaxLayoutShift == 1      \* captures: pixels the element may shrink by

(* Program constants *)

Scale == 10              \* denominator of the fixed-point overlap factors
ProcessorFactor == 8     \* visibleHeight * 0.8
ContentFactor == 9       \* visibleHeight * 0.9
SegmentLimit == 50       \* "Safety limit": segments.length > 50

Max(a, b) == IF a >= b THEN a ELSE b
Min(a, b) == IF a <= b THEN a ELSE b

\* An optional value (`undefined` in the source) is a sequence of length 0 or 1.
Undefined == <<>>
Some(v) == <<v>>
Get(o) == o[1]

----------------------------------------------------------------------------
(* ScrollSegmentPlanner *)

NoPlan == <<>>

SinglePosition == <<[x |-> 0, y |-> 0, isComplete |-> TRUE]>>

\* The while loop of calculateScrollSegments: the segments `segs` so far, the next
\* currentScrollTop (fixed point), the step and totalScrollHeight.
RECURSIVE ScrollLoop(_, _, _, _)
ScrollLoop(segs, currentScrollTop, segmentHeight, totalScrollHeight) ==
    IF ~(currentScrollTop <= totalScrollHeight)
    THEN segs
    ELSE LET pushed == Append(segs,
                              [x |-> 0, y |-> currentScrollTop,
                               isComplete |-> currentScrollTop >= totalScrollHeight])
         IN  IF currentScrollTop >= totalScrollHeight
             THEN pushed
             ELSE IF Len(pushed) > SegmentLimit
                  THEN pushed
                  ELSE ScrollLoop(pushed, currentScrollTop + segmentHeight,
                                  segmentHeight, totalScrollHeight)

\* A planner whose early return forgets the isScrollable test.
calculateScrollSegments_ignoresScrollable(info) ==
    IF info.totalHeight <= info.visibleHeight
    THEN SinglePosition
    ELSE ScrollLoop(<<>>, 0, info.visibleHeight * ProcessorFactor,
                    (info.totalHeight - info.visibleHeight) * Scale)

\* ScreenshotProcessor.calculateScrollSegments
calculateScrollSegments(info) ==
    IF ~info.isScrollable \/ info.totalHeight <= info.visibleHeight
    THEN SinglePosition
    ELSE ScrollLoop(<<>>, 0, info.visibleHeight * ProcessorFactor,
                    (info.totalHeight - info.visibleHeight) * Scale)

\* calculateScrollSegments of the content script: the same loop with the
\* factor 0.9; its counter segmentIndex equals segs.length at the test.
contentCalculateScrollSegments(info) ==
    IF ~info.isScrollable \/ info.totalHeight <= info.visibleHeight
    THEN SinglePosition
    ELSE ScrollLoop(<<>>, 0, info.visibleHeight * ContentFactor,
                    (info.totalHeight - info.visibleHeight) * Scale)

\* The ElementInfo values a planner is called with.
PlanInputs ==
    [isScrollable : BOOLEAN,
     totalHeight : 1..MaxTotalHeight,
     visibleHeight : 1..MaxVisibleHeight]

\* No capture is running.
CaptureIdle ==
    /\ tab = Undefined
    /\ devicePixelRatio = 1
    /\ cpc = "off"
    /\ segIndex = 0
    /\ shot = Undefined
    /\ segments = <<>>
    /\ calls = <<>>
    /\ captureResult = Undefined
    /\ stitched = Undefined

NoSession == [status |-> "none", progress |-> 0, totalSegments |-> 0,
              result |-> FALSE]

\* No session is running.
SessionIdle ==
    /\ spc = "off"
    /\ session = NoSession
    /\ sessionInMap = FALSE
    /\ outerAttempt = 0
    /\ stage = "none"
    /\ stageAttempt = 0
    /\ timers = 0
    /\ notifications = <<>>
    /\ downloads = 0
    /\ manualSaveStore = FALSE
    /\ thrown = Undefined
    /\ stageError = Undefined

\* handleError is not running.
RetryIdle ==
    /\ hpc = "off"
    /\ operation = <<>>
    /\ maxAttempts = 0
    /\ attempt = 0
    /\ invocations = 0
    /\ delays = <<>>
    /\ delayMs = 0
    /\ backoffMultiplier = 0
    /\ lastError = Undefined
    /\ fallbacks = <<>>
    /\ strategiesRun = <<>>
    /\ retryableErrors = {}
    /\ handled = Undefined

ClassifyIdle ==
    /\ errorMessage = {}
    /\ classification = Undefined

ConvertIdle ==
    /\ dataUrl = Undefined
    /\ options = Undefined
    /\ converted = Undefined

FilenameIdle ==
    /\ template = <<>>
    /\ format = "png"
    /\ filename = Undefined

TooltipIdle ==
    /\ tooltipElement = Undefined
    /\ tooltipTimers = {}
    /\ shown = 0
    /\ dismissals = {}

RouterIdle ==
    /\ handlers = <<>>
    /\ request = Undefined
    /\ responses = <<>>
    /\ rejections = 0

OptimizerIdle ==
    /\ sizeInput = Undefined
    /\ optimalSize = Undefined

ProgressiveIdle ==
    /\ items = <<>>
    /\ enableProgressiveLoading = TRUE
    /\ ppc = "off"
    /\ batchStart = 0
    /\ processorCalls = <<>>
    /\ results = <<>>
    /\ processed = Undefined
    /\ enableMemoryCleanup = TRUE
    /\ now = 0
    /\ memInfo = Undefined
    /\ lastMemoryCleanup = 0
    /\ cleanups = <<>>

SelectionIdle ==
    /\ isSelectionMode = FALSE
    /\ overlayElement = FALSE
    /\ overlays = 0
    /\ highlightDiv = FALSE
    /\ highlights = 0
    /\ listeners = FALSE
    /\ currentHoveredElement = 0
    /\ pendingRequests = <<>>

ExtraIdle ==
    /\ captures = <<>>
    /\ saveRequests = <<>>
    /\ SelectionIdle

UtilIdle ==
    /\ RouterIdle
    /\ OptimizerIdle
    /\ ProgressiveIdle
    /\ ExtraIdle

LaterIdle ==
    /\ RetryIdle
    /\ ClassifyIdle
    /\ ConvertIdle
    /\ FilenameIdle
    /\ TooltipIdle
    /\ UtilIdle

\* The planners, the capture and the session are not in use.
BaseIdle ==
    /\ elementInfo = [isScrollable |-> FALSE, totalHeight |-> 1,
                      visibleHeight |-> 1]
    /\ scrollSegments = NoPlan
    /\ contentSegments = NoPlan
    /\ planned = {}
    /\ CaptureIdle
    /\ SessionIdle

\* Nothing but the named operation is in use.
OthersIdle ==
    /\ BaseIdle
    /\ UtilIdle

\* None of the operations above is in use.
CoreIdle ==
    /\ BaseIdle
    /\ RetryIdle
    /\ ClassifyIdle
    /\ ConvertIdle
    /\ FilenameIdle
    /\ TooltipIdle
    /\ ExtraIdle

InitPlan ==
    /\ elementInfo \in PlanInputs
    /\ scrollSegments = NoPlan
    /\ contentSegments = NoPlan
    /\ planned = {}
    /\ CaptureIdle
    /\ SessionIdle
    /\ LaterIdle

PlanProcessor ==
    /\ "processor" \notin planned
    /\ scrollSegments' = calculateScrollSegments(elementInfo)
    /\ planned' = planned \cup {"processor"}
    /\ UNCHANGED <<elementInfo, contentSegments, captureVars, sessionVars, laterVars>>

PlanContent ==
    /\ "content" \notin planned
    /\ contentSegments' = contentCalculateScrollSegments(elementInfo)
    /\ planned' = planned \cup {"content"}
    /\ UNCHANGED <<elementInfo, scrollSegments, captureVars, sessionVars, laterVars>>

NextPlan == PlanProcessor \/ PlanContent

SpecPlan == InitPlan /\ [][NextPlan]_vars

----------------------------------------------------------------------------
(* Rasters, crop areas and the canvas.                                     *)
(*                                                                         *)
(* A raster returned by captureVisibleTab is kept as what it shows: the    *)
(* tab's viewport (width and height in physical pixels), the element's     *)
(* viewport rectangle and the element's scrollTop at the time of capture.  *)
(* A canvas is kept as its size and the drawImage calls made on it.  Crop  *)
(* coordinates are physical pixels in fixed point (times Scale).           *)

Fx(px) == px * Scale

RectOf(left, top, width, height) ==
    [left |-> left, top |-> top, width |-> width, height |-> height]


Identity == [a |-> 1, b |-> 0, c |-> 0, d |-> 1, e |-> 0, f |-> 0]

SetMin(S) == CHOOSE m \in S : \A n \in S : m <= n
SetMax(S) == CHOOSE m \in S : \A n \in S : m >= n

\* adjustCropArea with a start that is only kept from being negative.
adjustCropArea_noUpperClamp(cropArea, imageWidth, imageHeight) ==
    LET x == Max(0, cropArea.x)
        y == Max(0, cropArea.y)
    IN  [x |-> x, y |-> y,
         width |-> Max(Fx(1), cropArea.width),
         height |-> Max(Fx(1), cropArea.height)]

\* ScreenshotProcessor.adjustCropArea
adjustCropArea(cropArea, imageWidth, imageHeight) ==
    LET x == Max(0, Min(cropArea.x, imageWidth - Fx(1)))
        y == Max(0, Min(cropArea.y, imageHeight - Fx(1)))
        width == Min(cropArea.width, imageWidth - x)
        height == Min(cropArea.height, imageHeight - y)
    IN  [x |-> x, y |-> y,
         width |-> Max(Fx(1), width),
         height |-> Max(Fx(1), height)]

\* DOMMatrix.transformPoint for a 2D matrix
TransformPoint(m, x, y) ==
    [x |-> m.a * x + m.c * y + m.e, y |-> m.b * x + m.d * y + m.f]

\* ScreenshotProcessor.calculateTransformedBounds
calculateTransformedBounds(bounds, matrix) ==
    LET right == bounds.left + bounds.width
        bottom == bounds.top + bounds.height
        corners == {TransformPoint(matrix, bounds.left, bounds.top),
                    TransformPoint(matrix, right, bounds.top),
                    TransformPoint(matrix, right, bottom),
                    TransformPoint(matrix, bounds.left, bottom)}
        xs == {p.x : p \in corners}
        ys == {p.y : p \in corners}
    IN  RectOf(SetMin(xs), SetMin(ys),
               SetMax(xs) - SetMin(xs), SetMax(ys) - SetMin(ys))

\* ScreenshotProcessor.calculateComplexElementCropArea
calculateComplexElementCropArea(info, dpr) ==
    LET b0 == info.boundingRect
        b1 == IF info.hasShadow /\ info.shadowInfo # Undefined
              THEN Get(info.shadowInfo).shadowBounds ELSE b0
        b2 == IF info.isInIframe /\ info.iframeInfo # Undefined
              THEN RectOf(Get(info.iframeInfo).iframeBounds.left
                              + Get(info.iframeInfo).relativePosition.x,
                          Get(info.iframeInfo).iframeBounds.top
                              + Get(info.iframeInfo).relativePosition.y,
                          b1.width, b1.height)
              ELSE b1
        b3 == IF info.hasTransform /\ info.transformMatrix # Undefined
              THEN calculateTransformedBounds(b2, Get(info.transformMatrix))
              ELSE b2
    IN  [x |-> Fx(b3.left * dpr),
         y |-> Fx(b3.top * dpr),
         width |-> Fx(b3.width * dpr),
         height |-> Fx(b3.height * dpr)]

\* One ctx.drawImage(img, sx, sy, sw, sh, dx, dy, dw, dh) call, with the
\* transform the context had when it was made.
DrawImage(img, sx, sy, sw, sh, dx, dy, dw, dh, transform) ==
    [img |-> img, sx |-> sx, sy |-> sy, sw |-> sw, sh |-> sh,
     dx |-> dx, dy |-> dy, dw |-> dw, dh |-> dh, transform |-> transform]

Canvas(width, height, draws) ==
    [kind |-> "raster", width |-> width, height |-> height, draws |-> draws]

Failure(keywords) == [kind |-> "error", keywords |-> keywords]

\* ScreenshotProcessor.cropToElement, with renderComplexElement and its two
\* helpers: only a transformed element that is not fixed draws under
\* ctx.setTransform.
cropToElement(screenshotDataUrl, info, dpr) ==
    LET img == screenshotDataUrl
        cropArea == calculateComplexElementCropArea(info, dpr)
        a == adjustCropArea(cropArea, Fx(img.width), Fx(img.height))
        transform ==
            IF ~info.isFixed /\ info.hasTransform
                   /\ info.transformMatrix # Undefined
            THEN Get(info.transformMatrix) ELSE Identity
    IN  Canvas(a.width, a.height,
               <<DrawImage(img, a.x, a.y, a.width, a.height,
                           0, 0, a.width, a.height, transform)>>)

\* ScreenshotProcessor.calculateOverlapHeight, in fixed point: the scroll
\* positions are already scaled, the element height is not.
calculateOverlapHeight(segs, currentIndex, dpr) ==
    IF currentIndex = 1 THEN 0
    ELSE LET scrollDiff == segs[currentIndex].scrollPosition.y
                               - segs[currentIndex - 1].scrollPosition.y
             segmentHeight == Fx(Get(segs[currentIndex].elementRect).height)
         IN  Max(0, segmentHeight - scrollDiff) * dpr

\* The segment loop of stitchScreenshotSegments from segment i on: the
\* drawImage calls made so far and the vertical write offset currentY.
RECURSIVE StitchLoop(_, _, _, _, _, _)
StitchLoop(segs, i, elementWidth, dpr, currentY, draws) ==
    IF i > Len(segs) THEN [draws |-> draws, currentY |-> currentY]
    ELSE LET segment == segs[i]
             img == segment.dataUrl
             rect == Get(segment.elementRect)
             cropArea == [x |-> Fx(rect.left * dpr),
                          y |-> Fx(rect.top * dpr),
                          width |-> elementWidth,
                          height |-> Fx(rect.height * dpr)]
             a == adjustCropArea(cropArea, Fx(img.width), Fx(img.height))
             overlapHeight ==
                 IF i > 1
                 THEN calculateOverlapHeight(segs, i, dpr)
                 ELSE 0
             segmentHeight == a.height - overlapHeight
             draw == DrawImage(img, a.x, a.y + overlapHeight, a.width,
                               segmentHeight, 0, currentY, elementWidth,
                               segmentHeight, Identity)
         IN  StitchLoop(segs, i + 1, elementWidth, dpr,
                        currentY + segmentHeight, Append(draws, draw))

\* The words of "Screenshot stitching failed: ..." that matter to a reader
\* of the error: the classification keyword and the failing step.
StitchingFailedMessage == {"screenshot", "stitching failed"}

\* A stitcher that does not look for an empty list: it hands back the
\* canvas it allocated.
stitchScreenshotSegments_emptyCanvas(segs, info, dpr) ==
    IF Len(segs) = 1
    THEN cropToElement(segs[1].dataUrl, info, dpr)
    ELSE IF \E i \in 1..Len(segs) : segs[i].elementRect = Undefined
    THEN Failure(StitchingFailedMessage)
    ELSE LET elementWidth == Fx(info.boundingRect.width * dpr)
             totalHeight == Fx(info.totalHeight * dpr)
             done == StitchLoop(segs, 1, elementWidth, dpr,
                                0, <<>>)
         IN  Canvas(elementWidth, totalHeight, done.draws)

\* A stitcher without the single-segment shortcut: one segment is
\* composited like any other.
stitchScreenshotSegments_alwaysComposites(segs, info, dpr) ==
    IF Len(segs) = 0 THEN Failure(StitchingFailedMessage)
    ELSE IF \E i \in 1..Len(segs) : segs[i].elementRect = Undefined
    THEN Failure(StitchingFailedMessage)
    ELSE LET elementWidth == Fx(info.boundingRect.width * dpr)
             totalHeight == Fx(info.totalHeight * dpr)
             done == StitchLoop(segs, 1, elementWidth, dpr,
                                0, <<>>)
         IN  Canvas(elementWidth, totalHeight, done.draws)

\* ScreenshotProcessor.stitchScreenshotSegments.  Every failure is rethrown
\* as "Screenshot stitching failed: ...".
stitchScreenshotSegments(segs, info, dpr) ==
    IF Len(segs) = 0 THEN Failure(StitchingFailedMessage)
    ELSE IF Len(segs) = 1
    THEN cropToElement(segs[1].dataUrl, info, dpr)
    ELSE IF \E i \in 1..Len(segs) : segs[i].elementRect = Undefined
    THEN Failure(StitchingFailedMessage)
    ELSE LET elementWidth == Fx(info.boundingRect.width * dpr)
             totalHeight == Fx(info.totalHeight * dpr)
             done == StitchLoop(segs, 1, elementWidth, dpr,
                                0, <<>>)
         IN  Canvas(elementWidth, totalHeight, done.draws)

\* The sum of the heights the segs contribute: currentY after the loop.
ContributedHeight(segs, info, dpr) ==
    StitchLoop(segs, 1, Fx(info.boundingRect.width * dpr),
               dpr, 0, <<>>).currentY

----------------------------------------------------------------------------
(* The page (content script) and ScreenshotProcessor.captureLongScreenshot *)
(*                                                                         *)
(* An error is kept as the set of classification keywords its message      *)
(* contains (ErrorHandler.classifyError looks for nothing else).           *)

ViewportHeight == 5 * MaxVisibleFives + MaxElemTop
ViewportWidth == MaxElemWidth + 1

\* "Could not establish connection. Receiving end does not exist."
ConnectionLost == {}
\* "The 'activeTab' permission is not in effect ..."
PermissionLost == {"permission"}
ChromeErrors == {ConnectionLost, PermissionLost}

\* `Element not found: ${sel}` of the injected measuring function
ElementNotFoundMessage == {"element not found"}

\* detectScrollableElement of the content script: clientHeight is the
\* element's height, window.innerHeight is ViewportHeight.
detectScrollableElement(t) ==
    LET isScrollable == t.native /\ t.scrollHeight > t.height
        exceedsViewport == 2 * t.scrollHeight > 3 * ViewportHeight
    IN  [isScrollable |-> isScrollable \/ exceedsViewport,
         totalHeight |-> Max(t.scrollHeight, t.height),
         visibleHeight |-> t.height]

Profiles == {"plain", "shadow", "iframe", "transform", "fixed"}

\* getElementInfo of the content script for a window that is not scrolled;
\* `profile` picks what analyzeComplexElement found.
getElementInfo(t, profile) ==
    LET rect == RectOf(t.left, t.top, t.width, t.height)
        scrollInfo == detectScrollableElement(t)
    IN  [boundingRect |-> rect,
         isScrollable |-> scrollInfo.isScrollable,
         totalHeight |-> scrollInfo.totalHeight,
         visibleHeight |-> scrollInfo.visibleHeight,
         hasTransform |-> profile = "transform",
         transformMatrix |->
             IF profile = "transform"
             THEN Some([a |-> 1, b |-> 0, c |-> 0, d |-> 1, e |-> 1, f |-> 1])
             ELSE Undefined,
         hasShadow |-> profile = "shadow",
         shadowInfo |->
             IF profile = "shadow"
             THEN Some([shadowBounds |->
                            RectOf(t.left - 1, t.top - 1,
                                   t.width + 2, t.height + 2)])
             ELSE Undefined,
         isInIframe |-> profile = "iframe",
         iframeInfo |->
             IF profile = "iframe"
             THEN Some([iframeBounds |->
                            RectOf(0, 0, ViewportWidth, ViewportHeight),
                        relativePosition |-> [x |-> t.left, y |-> t.top]])
             ELSE Undefined,
         isFixed |-> profile = "fixed"]

\* scrollElementToPosition of the content script on an existing element:
\* the browser clamps scrollTop to scrollHeight - clientHeight, and an
\* element without scrolling overflow stays at 0.
scrollElementToPosition(t, scrollTop) ==
    [t EXCEPT !.scrollTop =
        IF t.native THEN Max(0, Min(scrollTop, t.scrollHeight - t.height))
        ELSE 0]

\* resetElementScroll of the content script: a missing element is skipped
\* silently.
resetElementScroll(t) ==
    IF t.exists THEN [t EXCEPT !.scrollTop = 0] ELSE t

\* What chrome.tabs.captureVisibleTab shows of the tab.
Raster(t, dpr) ==
    [width |-> ViewportWidth * dpr, height |-> ViewportHeight * dpr,
     dpr |-> dpr, elExists |-> t.exists, elTop |-> t.top,
     elHeight |-> t.height, scrollTop |-> t.scrollTop]

InitCapture ==
    /\ \E k \in 1..MaxVisibleFives, scrollHeight \in 1..MaxScrollHeight,
          native \in BOOLEAN, top \in 0..MaxElemTop, profile \in Profiles :
          /\ scrollHeight >= 5 * k
          /\ tab = [exists |-> TRUE, scrollTop |-> 0, height |-> 5 * k,
                    native |-> native, top |-> top, left |-> 0,
                    width |-> MaxElemWidth, scrollHeight |-> scrollHeight]
          /\ elementInfo = getElementInfo(tab, profile)
    /\ devicePixelRatio \in 1..MaxDpr
    /\ scrollSegments = NoPlan
    /\ contentSegments = NoPlan
    /\ planned = {}
    /\ cpc = "idle"
    /\ segIndex = 0
    /\ shot = Undefined
    /\ segments = <<>>
    /\ calls = <<>>
    /\ captureResult = Undefined
    /\ stitched = Undefined
    /\ SessionIdle
    /\ LaterIdle

Running == cpc \in {"scroll", "capture", "measure", "reset"}

\* One external call of iteration i and how it ended: "ok", "failed" (the
\* page's handler threw and MessageRouter.handle answered success: false)
\* or "rejected" (the promise rejected).
Call(op, i, y, reply) == [op |-> op, i |-> i, y |-> y, reply |-> reply]

\* The catch block of captureLongScreenshot: the segments are dropped and
\* `Long screenshot capture failed: ${message}` is thrown.
CaptureThrows(keywords) ==
    /\ cpc' = "failed"
    /\ captureResult' = Some(Failure(keywords \cup {"capture", "screenshot"}))

\* calculateScrollSegments, then the first RESET_SCROLL.
StartCapture ==
    /\ cpc = "idle"
    /\ scrollSegments' = calculateScrollSegments(elementInfo)
    /\ segIndex' = 1
    /\ \/ /\ tab' = resetElementScroll(tab)
          /\ calls' = Append(calls, Call("reset", 0, 0, "ok"))
          /\ cpc' = "scroll"
          /\ UNCHANGED captureResult
       \/ /\ CaptureThrows(ConnectionLost)
          /\ calls' = Append(calls, Call("reset", 0, 0, "rejected"))
          /\ UNCHANGED tab
    /\ UNCHANGED <<elementInfo, contentSegments, planned, devicePixelRatio,
                   shot, segments, stitched, sessionVars, laterVars>>

\* SCROLL_TO_POSITION for offset i.  The reply of a handler that threw
\* ({success: false, ...}) resolves the call; the reply is not looked at.
ScrollTo ==
    /\ cpc = "scroll"
    /\ LET y == scrollSegments[segIndex].y
       IN  \/ /\ tab.exists
              /\ tab' = scrollElementToPosition(tab, y \div Scale)
              /\ calls' = Append(calls, Call("scroll", segIndex, y, "ok"))
              /\ cpc' = "capture"
              /\ UNCHANGED captureResult
           \/ /\ ~tab.exists
              /\ calls' = Append(calls, Call("scroll", segIndex, y, "failed"))
              /\ cpc' = "capture"
              /\ UNCHANGED <<tab, captureResult>>
           \/ /\ CaptureThrows(ConnectionLost)
              /\ calls' = Append(calls, Call("scroll", segIndex, y, "rejected"))
              /\ UNCHANGED tab
    /\ UNCHANGED <<planVars, devicePixelRatio, segIndex, shot, segments,
                   stitched, sessionVars, laterVars>>

\* captureFullPage after the 200 ms settle delay.
CaptureViewport ==
    /\ cpc = "capture"
    /\ \/ /\ shot' = Some(Raster(tab, devicePixelRatio))
          /\ calls' = Append(calls, Call("capture", segIndex, 0, "ok"))
          /\ cpc' = "measure"
          /\ UNCHANGED captureResult
       \/ /\ \E e \in ChromeErrors :
                 CaptureThrows(e \cup {"capture", "screenshot"})
          /\ calls' = Append(calls, Call("capture", segIndex, 0, "rejected"))
          /\ UNCHANGED shot
    /\ UNCHANGED <<planVars, tab, devicePixelRatio, segIndex, segments,
                   stitched, sessionVars, laterVars>>

\* A push that numbers the segments from one.
PushSegment_countsFromOne(elementRect) ==
    /\ segments' = Append(segments,
                          [dataUrl |-> Get(shot),
                           scrollPosition |-> scrollSegments[segIndex],
                           segmentIndex |-> segIndex,
                           elementRect |-> elementRect])
    /\ calls' = Append(calls, Call("measure", segIndex, 0, "ok"))
    /\ IF segIndex = Len(scrollSegments)
       THEN cpc' = "reset" /\ UNCHANGED segIndex
       ELSE cpc' = "scroll" /\ segIndex' = segIndex + 1
    /\ UNCHANGED captureResult

\* The push of one segment and the loop's i++.
PushSegment(elementRect) ==
    /\ segments' = Append(segments,
                          [dataUrl |-> Get(shot),
                           scrollPosition |-> scrollSegments[segIndex],
                           segmentIndex |-> segIndex - 1,
                           elementRect |-> elementRect])
    /\ calls' = Append(calls, Call("measure", segIndex, 0, "ok"))
    /\ IF segIndex = Len(scrollSegments)
       THEN cpc' = "reset" /\ UNCHANGED segIndex
       ELSE cpc' = "scroll" /\ segIndex' = segIndex + 1
    /\ UNCHANGED captureResult

\* getElementRectAfterScroll, then segments.push.  When the element is
\* missing the injected function throws: executeScript then either rejects
\* or resolves with no result, depending on the browser.
Measure ==
    /\ cpc = "measure"
    /\ \/ /\ tab.exists
          /\ PushSegment(Some(RectOf(tab.left, tab.top, tab.width, tab.height)))
       \/ /\ ~tab.exists
          /\ PushSegment(Undefined)
       \/ /\ ~tab.exists
          /\ CaptureThrows(ElementNotFoundMessage)
          /\ calls' = Append(calls, Call("measure", segIndex, 0, "rejected"))
          /\ UNCHANGED <<segments, segIndex>>
    /\ UNCHANGED <<planVars, tab, devicePixelRatio, shot, stitched,
                   sessionVars, laterVars>>

\* The RESET_SCROLL after the loop, then the return.
ResetLast ==
    /\ cpc = "reset"
    /\ \/ /\ tab' = resetElementScroll(tab)
          /\ calls' = Append(calls, Call("reset", segIndex + 1, 0, "ok"))
          /\ cpc' = "captured"
          /\ captureResult' = Some([kind |-> "segments", segments |-> segments])
       \/ /\ CaptureThrows(ConnectionLost)
          /\ calls' = Append(calls, Call("reset", segIndex + 1, 0, "rejected"))
          /\ UNCHANGED tab
    /\ UNCHANGED <<planVars, devicePixelRatio, segIndex, shot, segments,
                   stitched, sessionVars, laterVars>>

\* stitchScreenshotSegments on the segments a capture returned.
Stitch ==
    /\ cpc = "captured"
    /\ stitched = Undefined
    /\ stitched' = Some(stitchScreenshotSegments(segments, elementInfo,
                                                 devicePixelRatio))
    /\ UNCHANGED <<planVars, tab, devicePixelRatio, cpc, segIndex, shot,
                   segments, calls, captureResult, sessionVars, laterVars>>

\* The page removes the target element while a capture is running.
ElementRemoved ==
    /\ Running
    /\ tab.exists
    /\ tab' = [tab EXCEPT !.exists = FALSE]
    /\ UNCHANGED <<planVars, devicePixelRatio, cpc, segIndex, shot, segments,
                   calls, captureResult, stitched, sessionVars, laterVars>>

\* The page's layout shifts while a capture is running: the element gets
\* shorter.
LayoutShift ==
    /\ Running
    /\ tab.exists
    /\ tab.height = elementInfo.visibleHeight
    /\ \E d \in 1..MaxLayoutShift :
          /\ d < tab.height
          /\ tab' = [tab EXCEPT !.height = tab.height - d,
                                !.scrollTop = tab.scrollTop]
    /\ UNCHANGED <<planVars, devicePixelRatio, cpc, segIndex, shot, segments,
                   calls, captureResult, stitched, sessionVars, laterVars>>

NextCapture ==
    \/ StartCapture
    \/ ScrollTo
    \/ CaptureViewport
    \/ Measure
    \/ ResetLast
    \/ Stitch
    \/ ElementRemoved
    \/ LayoutShift

SpecCapture == InitCapture /\ [][NextCapture]_vars

\* A capture whose awaited calls all settle in the end, except
\* chrome.tabs.captureVisibleTab: captureLongScreenshot awaits each call
\* bare, no timer runs beside it, so nothing in the program makes a call
\* that stays pending end.
SpecCaptureFair ==
    /\ SpecCapture
    /\ WF_vars(StartCapture)
    /\ WF_vars(ScrollTo)
    /\ WF_vars(Measure)
    /\ WF_vars(ResetLast)
    /\ WF_vars(Stitch)

----------------------------------------------------------------------------
(* Several ELEMENT_SELECTED requests from one tab *)
(*                                                                         *)
(* selectElement of the content script leaves selection mode only when the *)
(* background script has answered, which it does when the capture is over; *)
(* until then every further click sends another ELEMENT_SELECTED, and the  *)
(* handler starts a session for each without looking at the others.        *)

\* The largest number of sessions started on the tab.
MaxSessions == 2

SessionIds == 1..MaxSessions

\* A capture that has not been asked for.
NoCapture == [pc |-> "off", long |-> FALSE, i |-> 0, shots |-> <<>>]

\* isLongScreenshot of the ELEMENT_SELECTED handler:
\* totalHeight > visibleHeight * 1.5 of a scrollable element.
isLongScreenshot(info) ==
    info.isScrollable /\ 2 * info.totalHeight > 3 * info.visibleHeight

\* What a session captured: the scrollTop its own scroll had left and the
\* scrollTop the element had when captureVisibleTab ran.
Shot(wanted, got) == [wanted |-> wanted, got |-> got]

\* The other captures are left alone.
OnlyCapture(id, capture) == captures' = [captures EXCEPT ![id] = capture]

notCapturesVars ==
    <<planVars, devicePixelRatio, cpc, segIndex, shot, segments, calls,
      captureResult, stitched, sessionVars, retryVars, classifyVars,
      convertVars, filenameVars, tooltipVars, routerVars, optimizerVars,
      progressiveVars, saveRequests, selectionVars>>

InitSessions ==
    /\ \E k \in 1..MaxVisibleFives, scrollHeight \in 1..MaxScrollHeight,
          native \in BOOLEAN, top \in 0..MaxElemTop :
          /\ scrollHeight >= 5 * k
          /\ tab = [exists |-> TRUE, scrollTop |-> 0, height |-> 5 * k,
                    native |-> native, top |-> top, left |-> 0,
                    width |-> MaxElemWidth, scrollHeight |-> scrollHeight]
          /\ elementInfo = getElementInfo(tab, "plain")
    /\ scrollSegments = calculateScrollSegments(elementInfo)
    /\ contentSegments = NoPlan
    /\ planned = {"processor"}
    /\ devicePixelRatio = 1
    /\ cpc = "off"
    /\ segIndex = 0
    /\ shot = Undefined
    /\ segments = <<>>
    /\ calls = <<>>
    /\ captureResult = Undefined
    /\ stitched = Undefined
    /\ SessionIdle
    /\ RetryIdle
    /\ ClassifyIdle
    /\ ConvertIdle
    /\ FilenameIdle
    /\ TooltipIdle
    /\ RouterIdle
    /\ OptimizerIdle
    /\ ProgressiveIdle
    /\ captures = [id \in SessionIds |-> NoCapture]
    /\ saveRequests = <<>>
    /\ SelectionIdle

\* The ELEMENT_SELECTED handler for one more click on the element: a long
\* capture plans its offsets and sends the first RESET_SCROLL, a plain
\* capture goes straight to captureVisibleTab.
ElementSelected(id) ==
    /\ captures[id].pc = "off"
    /\ \A other \in 1..(id - 1) : captures[other].pc # "off"
    /\ IF isLongScreenshot(elementInfo)
       THEN /\ tab' = resetElementScroll(tab)
            /\ OnlyCapture(id, [pc |-> "scroll", long |-> TRUE, i |-> 1,
                                shots |-> <<>>])
       ELSE /\ OnlyCapture(id, [pc |-> "capture", long |-> FALSE, i |-> 1,
                                shots |-> <<>>])
            /\ UNCHANGED tab
    /\ UNCHANGED notCapturesVars

\* SCROLL_TO_POSITION for the offset i of session id.
SessionScrollTo(id) ==
    /\ captures[id].pc = "scroll"
    /\ tab' = scrollElementToPosition(
                  tab, scrollSegments[captures[id].i].y \div Scale)
    /\ OnlyCapture(id, [captures[id] EXCEPT !.pc = "capture"])
    /\ UNCHANGED notCapturesVars

\* captureVisibleTab for the offset i of session id, and the loop's i++.
SessionCaptureViewport(id) ==
    /\ captures[id].pc = "capture"
    /\ LET capture == captures[id]
           wanted ==
               IF capture.long
               THEN scrollElementToPosition(
                        tab, scrollSegments[capture.i].y \div Scale).scrollTop
               ELSE 0
           last == ~capture.long \/ capture.i = Len(scrollSegments)
       IN  OnlyCapture(id,
               [pc |-> IF ~capture.long THEN "done"
                       ELSE IF last THEN "reset" ELSE "scroll",
                long |-> capture.long,
                i |-> IF last THEN capture.i ELSE capture.i + 1,
                shots |-> Append(capture.shots,
                                 Shot(wanted, tab.scrollTop))])
    /\ UNCHANGED <<tab, notCapturesVars>>

\* The RESET_SCROLL after the loop of session id.
SessionResetLast(id) ==
    /\ captures[id].pc = "reset"
    /\ tab' = resetElementScroll(tab)
    /\ OnlyCapture(id, [captures[id] EXCEPT !.pc = "done"])
    /\ UNCHANGED notCapturesVars

ElementSelectedAny == \E id \in SessionIds : ElementSelected(id)
SessionScrollToAny == \E id \in SessionIds : SessionScrollTo(id)
SessionCaptureViewportAny == \E id \in SessionIds : SessionCaptureViewport(id)
SessionResetLastAny == \E id \in SessionIds : SessionResetLast(id)

NextSessions ==
    \/ ElementSelectedAny
    \/ SessionScrollToAny
    \/ SessionCaptureViewportAny
    \/ SessionResetLastAny

SpecSessions == InitSessions /\ [][NextSessions]_vars

----------------------------------------------------------------------------
(* stitchScreenshotSegments on any list of segments *)

\* The segment an undisturbed capture takes at a planned position.
SegmentAt(t, dpr, position, index) ==
    LET scrolled == scrollElementToPosition(t, position.y \div Scale)
    IN  [dataUrl |-> Raster(scrolled, dpr),
         scrollPosition |-> position,
         segmentIndex |-> index - 1,
         elementRect |->
             Some(RectOf(scrolled.left, scrolled.top, scrolled.width,
                         scrolled.height))]

\* The lists handed to the stitcher: the first n segments of a capture,
\* for every n from 0 on.
SegmentLists(t, info, dpr) ==
    LET plan == calculateScrollSegments(info)
    IN  {[i \in 1..n |-> SegmentAt(t, dpr, plan[i], i)] : n \in 0..Len(plan)}

\* The element may reach below the bottom edge of the viewport: its top is
\* anywhere in the viewport and it may be taller than the viewport.
InitStitch ==
    /\ \E k \in 1..(MaxVisibleFives + 1),
          scrollHeight \in 1..(MaxScrollHeight + 5 * MaxVisibleFives),
          native \in BOOLEAN, top \in 0..(ViewportHeight - 1),
          profile \in Profiles :
          /\ scrollHeight >= 5 * k
          /\ tab = [exists |-> TRUE, scrollTop |-> 0, height |-> 5 * k,
                    native |-> native, top |-> top, left |-> 0,
                    width |-> MaxElemWidth, scrollHeight |-> scrollHeight]
          /\ elementInfo = getElementInfo(tab, profile)
    /\ devicePixelRatio \in 1..MaxDpr
    /\ segments \in SegmentLists(tab, elementInfo, devicePixelRatio)
    /\ scrollSegments = calculateScrollSegments(elementInfo)
    /\ contentSegments = NoPlan
    /\ planned = {"processor"}
    /\ cpc = "captured"
    /\ segIndex = Len(segments)
    /\ shot = Undefined
    /\ calls = <<>>
    /\ captureResult = Some([kind |-> "segments", segments |-> segments])
    /\ stitched = Undefined
    /\ SessionIdle
    /\ LaterIdle

NextStitch == Stitch

SpecStitch == InitStitch /\ [][NextStitch]_vars

----------------------------------------------------------------------------
(* ErrorHandler *)

ErrorKinds == {"ELEMENT_NOT_FOUND", "PERMISSION_DENIED", "CAPTURE_FAILED",
               "PROCESSING_ERROR", "DOWNLOAD_FAILED"}

\* The definitions with the first two kinds made retryable.
ERROR_DEFINITIONS_allRetryable ==
    [k \in ErrorKinds |->
        [code |-> k, chineseMessage |-> k, severity |-> "medium",
         retryable |-> TRUE,
         fallbackAvailable |-> k \notin {"ELEMENT_NOT_FOUND",
                                         "PERMISSION_DENIED"}]]

\* chineseMessage is kept as the name of the kind it belongs to: the five
\* texts differ from one another and none holds a classification keyword.
ERROR_DEFINITIONS ==
    [k \in ErrorKinds |->
        CASE k = "ELEMENT_NOT_FOUND" ->
                 [code |-> k, chineseMessage |-> k, severity |-> "medium",
                  retryable |-> FALSE, fallbackAvailable |-> FALSE]
          [] k = "PERMISSION_DENIED" ->
                 [code |-> k, chineseMessage |-> k, severity |-> "high",
                  retryable |-> FALSE, fallbackAvailable |-> FALSE]
          [] k = "CAPTURE_FAILED" ->
                 [code |-> k, chineseMessage |-> k, severity |-> "medium",
                  retryable |-> TRUE, fallbackAvailable |-> TRUE]
          [] k = "PROCESSING_ERROR" ->
                 [code |-> k, chineseMessage |-> k, severity |-> "medium",
                  retryable |-> TRUE, fallbackAvailable |-> TRUE]
          [] k = "DOWNLOAD_FAILED" ->
                 [code |-> k, chineseMessage |-> k, severity |-> "low",
                  retryable |-> TRUE, fallbackAvailable |-> TRUE]]

\* The message of an error is the set of keywords it contains.
classifyError(message) ==
    IF message \cap {"element not found", "selector"} # {}
    THEN "ELEMENT_NOT_FOUND"
    ELSE IF message \cap {"permission", "denied", "unauthorized"} # {}
    THEN "PERMISSION_DENIED"
    ELSE IF message \cap {"download", "save"} # {}
    THEN "DOWNLOAD_FAILED"
    ELSE IF message \cap {"capture", "screenshot"} # {}
    THEN "CAPTURE_FAILED"
    ELSE "PROCESSING_ERROR"

createErrorInfo(error) == ERROR_DEFINITIONS[error]

\* The keywords in the chineseMessage of a definition: none.
ChineseMessage(errorInfo) == {}

DEFAULT_FALLBACK_OPTIONS ==
    [enableSimpleScreenshot |-> TRUE, enableManualSave |-> TRUE,
     enableQualityReduction |-> TRUE, enableFormatFallback |-> TRUE]

\* The names of the strategies getFallbackStrategies returns, in order.
getFallbackStrategies(errorCode, fallbackOptions) ==
    CASE errorCode = "CAPTURE_FAILED" ->
             IF fallbackOptions.enableSimpleScreenshot
             THEN <<"Simple Screenshot Mode">> ELSE <<>>
      [] errorCode = "PROCESSING_ERROR" ->
             (IF fallbackOptions.enableQualityReduction
              THEN <<"Reduced Quality Mode">> ELSE <<>>)
             \o (IF fallbackOptions.enableFormatFallback
                 THEN <<"Format Fallback">> ELSE <<>>)
      [] errorCode = "DOWNLOAD_FAILED" ->
             IF fallbackOptions.enableManualSave
             THEN <<"Manual Save Option">> ELSE <<>>
      [] OTHER -> <<>>

\* attemptFallback: every strategy throws "... not implemented yet", so all
\* of them are run and the final throw is reached: a plain Error whose
\* message is "All fallback strategies failed for error: " + chineseMessage.
attemptFallback(errorInfo, fallbackOptions) ==
    [ran |-> getFallbackStrategies(errorInfo.code, fallbackOptions),
     error |-> [name |-> <<"Error">>,
                allFallbacksFailed |-> TRUE,
                chineseMessage |-> errorInfo.chineseMessage,
                keywords |-> ChineseMessage(errorInfo),
                errorInfo |-> Undefined]]

\* enhanceError: new Error(errorInfo.chineseMessage) named after the code
\* and carrying errorInfo.
enhanceError(errorInfo) ==
    [name |-> <<"ScreenshotError", errorInfo.code>>,
     allFallbacksFailed |-> FALSE,
     chineseMessage |-> errorInfo.chineseMessage,
     keywords |-> ChineseMessage(errorInfo),
     errorInfo |-> Some(errorInfo)]

\* A handler that never goes round the loop again.
RetriesAfter_givesUp(error, n, limit) == FALSE

\* handleError's catch block: go round the loop again after a failure of
\* the n-th call?
RetriesAfter(error, n, limit) ==
    /\ createErrorInfo(classifyError(error)).retryable
    /\ n < limit

\* What handleError does once the loop is left with lastError = error: the
\* strategies it runs and the Error it throws.
AfterLoop(error, fallbackOptions) ==
    LET errorInfo == createErrorInfo(classifyError(error))
    IN  IF errorInfo.fallbackAvailable
        THEN attemptFallback(errorInfo, fallbackOptions)
        ELSE [ran |-> <<>>, error |-> enhanceError(errorInfo)]

\* The message of what handleError throws once the loop is left with
\* lastError = error.
handleErrorThrows(error) ==
    AfterLoop(error, DEFAULT_FALLBACK_OPTIONS).error.keywords

shouldOfferManualSave(errorInfo) ==
    \/ errorInfo.code = "DOWNLOAD_FAILED"
    \/ errorInfo.fallbackAvailable /\ errorInfo.severity # "critical"

----------------------------------------------------------------------------
(* ErrorHandler.handleError around any operation *)

\* The largest config.maxAttempts tried.
MaxAttemptsBound == 3

BackoffMultiplier == 2

RECURSIVE Pow(_, _)
Pow(b, e) == IF e = 0 THEN 1 ELSE b * Pow(b, e - 1)

\* A wait whose exponent is the number of the failed call itself.
backoffDelay_attemptExponent(base, multiplier, n) == base * Pow(multiplier, n)

\* The wait after the n-th failed call:
\* config.delayMs * Math.pow(config.backoffMultiplier, attempt - 1).
backoffDelay(base, multiplier, n) == base * Pow(multiplier, n - 1)

\* How one call of the operation ends: it resolves, or it rejects with an
\* error of the given message.
Resolves == [ok |-> TRUE, message |-> {}]
Rejects(message) == [ok |-> FALSE, message |-> message]

\* One message for each kind of classifyError.
FailureMessages ==
    {ElementNotFoundMessage, PermissionLost, {"download"},
     {"capture", "screenshot"}, {}}

Outcomes == {Resolves} \cup {Rejects(m) : m \in FailureMessages}

\* ErrorHandler.DEFAULT_RETRY_CONFIG.
DEFAULT_RETRY_CONFIG ==
    [maxAttempts |-> 3,
     delayMs |-> 1000,
     backoffMultiplier |-> BackoffMultiplier,
     retryableErrors |->
         {"CAPTURE_FAILED", "PROCESSING_ERROR", "DOWNLOAD_FAILED"}]

\* The config.delayMs tried: the default's and the backoff test's.
DelayMsValues == {DEFAULT_RETRY_CONFIG.delayMs, 100}

\* The config.backoffMultiplier tried.
BackoffMultipliers == {1, BackoffMultiplier, 3}

\* The retryableErrors the background script passes for both captures.
CaptureRetryableErrors == {"CAPTURE_FAILED", "PROCESSING_ERROR"}

\* The lists tried as config.retryableErrors: the default, the background
\* script's, and a list of one kind.
RetryableErrorLists ==
    {DEFAULT_RETRY_CONFIG.retryableErrors, CaptureRetryableErrors,
     {"CAPTURE_FAILED"}}

InitRetry ==
    /\ OthersIdle
    /\ ClassifyIdle
    /\ ConvertIdle
    /\ FilenameIdle
    /\ TooltipIdle
    /\ hpc = "loop"
    /\ maxAttempts \in 1..MaxAttemptsBound
    /\ operation \in [1..MaxAttemptsBound -> Outcomes]
    /\ fallbacks \in {DEFAULT_FALLBACK_OPTIONS,
                      [DEFAULT_FALLBACK_OPTIONS
                          EXCEPT !.enableFormatFallback = FALSE],
                      [DEFAULT_FALLBACK_OPTIONS
                          EXCEPT !.enableSimpleScreenshot = FALSE,
                                 !.enableManualSave = FALSE]}
    /\ attempt = 0
    /\ invocations = 0
    /\ delays = <<>>
    /\ delayMs \in DelayMsValues
    /\ backoffMultiplier \in BackoffMultipliers
    /\ lastError = Undefined
    /\ strategiesRun = <<>>
    /\ retryableErrors \in RetryableErrorLists
    /\ handled = Undefined

\* One pass of the while loop up to the end of the try or of the catch
\* block: attempt++, the call of the operation, and on a rejection the
\* decision to break or to wait.
Invoke ==
    /\ hpc = "loop"
    /\ attempt < maxAttempts
    /\ attempt' = attempt + 1
    /\ invocations' = invocations + 1
    /\ LET outcome == operation[attempt + 1]
       IN  IF outcome.ok
           THEN /\ handled' = Some([kind |-> "returned"])
                /\ hpc' = "done"
                /\ UNCHANGED lastError
           ELSE /\ lastError' = Some(outcome.message)
                /\ hpc' = IF RetriesAfter(outcome.message, attempt + 1,
                                          maxAttempts)
                          THEN "delay" ELSE "after"
                /\ UNCHANGED handled
    /\ UNCHANGED <<notRetryVars, operation, maxAttempts,
                   delays, delayMs, backoffMultiplier, fallbacks,
                   strategiesRun, retryableErrors>>

\* await this.delay(config.delayMs * backoffMultiplier ^ (attempt - 1)),
\* then the loop condition.
Delay ==
    /\ hpc = "delay"
    /\ delays' = Append(delays,
                         backoffDelay(delayMs, backoffMultiplier, attempt))
    /\ hpc' = IF attempt < maxAttempts THEN "loop" ELSE "after"
    /\ UNCHANGED <<notRetryVars, operation, maxAttempts,
                   delayMs, backoffMultiplier, attempt, invocations,
                   lastError, fallbacks, strategiesRun, retryableErrors,
                   handled>>

\* The code after the loop: the fallback strategies or enhanceError, and
\* the throw.
GiveUp ==
    /\ hpc = "after"
    /\ lastError # Undefined
    /\ LET end == AfterLoop(Get(lastError), fallbacks)
       IN  /\ strategiesRun' = end.ran
           /\ handled' = Some([kind |-> "thrown", error |-> end.error])
    /\ hpc' = "done"
    /\ UNCHANGED <<notRetryVars, operation, maxAttempts,
                   attempt, invocations, delays, delayMs, backoffMultiplier,
                   lastError, fallbacks, retryableErrors>>

NextRetry ==
    \/ Invoke
    \/ Delay
    \/ GiveUp

SpecRetry == InitRetry /\ [][NextRetry]_vars

----------------------------------------------------------------------------
(* ErrorHandler.classifyError on any message *)

\* The words a lower-cased message can contain that a classification can
\* turn on.  A message containing "element not found" contains "element".
Vocabulary ==
    {"element", "element not found", "selector", "permission", "denied",
     "unauthorized", "download", "save", "capture", "screenshot"}

Messages ==
    {m \in SUBSET Vocabulary : "element not found" \in m => "element" \in m}

InitClassify ==
    /\ OthersIdle
    /\ RetryIdle
    /\ ConvertIdle
    /\ FilenameIdle
    /\ TooltipIdle
    /\ errorMessage \in Messages
    /\ classification = Undefined

Classify ==
    /\ classification = Undefined
    /\ classification' = Some(classifyError(errorMessage))
    /\ UNCHANGED <<notClassifyVars, errorMessage>>

NextClassify == Classify

SpecClassify == InitClassify /\ [][NextClassify]_vars

----------------------------------------------------------------------------
(* ScreenshotProcessor.convertFormat *)

\* The largest width and height of an image handed to convertFormat.
MaxImageSide == 4

\* The quality settings tried, in tenths.
MaxQuality == 2

ConversionFailedMessage == {"format conversion failed"}

FillRect(fillStyle, x, y, w, h) ==
    [op |-> "fillRect", fillStyle |-> fillStyle, x |-> x, y |-> y,
     w |-> w, h |-> h]

\* A conversion that never paints a background.
convertFormat_neverFills(image, opts) ==
    IF ~image.decodes THEN Failure(ConversionFailedMessage)
    ELSE [kind |-> "raster", width |-> image.width, height |-> image.height,
          ops |-> <<[op |-> "drawImage", img |-> image, dx |-> 0, dy |-> 0]>>,
          mimeType |-> IF opts.format = "jpeg" THEN "image/jpeg"
                       ELSE "image/png",
          quality |-> opts.quality]

\* convertFormat: the canvas takes the size of the loaded image; for jpeg
\* it is filled with #FFFFFF before the image is drawn at (0, 0); the
\* result is canvas.toDataURL(mimeType, quality).  An image that does not
\* load rejects.
convertFormat(image, opts) ==
    IF ~image.decodes THEN Failure(ConversionFailedMessage)
    ELSE [kind |-> "raster", width |-> image.width, height |-> image.height,
          ops |-> (IF opts.format = "jpeg"
                   THEN <<FillRect("#FFFFFF", 0, 0, image.width,
                                   image.height)>>
                   ELSE <<>>)
                  \o <<[op |-> "drawImage", img |-> image,
                        dx |-> 0, dy |-> 0]>>,
          mimeType |-> IF opts.format = "jpeg" THEN "image/jpeg"
                       ELSE "image/png",
          quality |-> opts.quality]

InitConvert ==
    /\ OthersIdle
    /\ RetryIdle
    /\ ClassifyIdle
    /\ FilenameIdle
    /\ TooltipIdle
    /\ \E w \in 1..MaxImageSide, h \in 1..MaxImageSide, decodes \in BOOLEAN :
          dataUrl = Some([width |-> w, height |-> h, decodes |-> decodes])
    /\ \E f \in {"png", "jpeg"}, q \in 0..MaxQuality :
          options = Some([format |-> f, quality |-> q])
    /\ converted = Undefined

Convert ==
    /\ dataUrl # Undefined
    /\ converted = Undefined
    /\ converted' = Some(convertFormat(Get(dataUrl), Get(options)))
    /\ UNCHANGED <<notConvertVars, dataUrl, options>>

NextConvert == Convert

SpecConvert == InitConvert /\ [][NextConvert]_vars

----------------------------------------------------------------------------
(* ScreenshotProcessor.generateFilename *)
(*                                                                         *)
(* A file name is kept as a sequence of pieces: words, dots and the        *)
(* placeholders of the template.  No piece ends with a dot followed by an  *)
(* extension, so endsWith(".jpg") is a test on the last two pieces.        *)

\* The longest template tried, in pieces.
MaxTemplateLen == 3

Pieces ==
    {"shot", ".", "png", "jpg", "jpeg", "{timestamp}", "{date}", "{time}",
     "{format}"}

Templates ==
    UNION {[1..n -> Pieces] : n \in 0..MaxTemplateLen}

\* String.prototype.replace with a string pattern: the first occurrence
\* only.
ReplaceFirst(str, pattern, by) ==
    IF \E i \in 1..Len(str) : str[i] = pattern
    THEN LET first == CHOOSE i \in 1..Len(str) :
                          /\ str[i] = pattern
                          /\ \A j \in 1..(i - 1) : str[j] # pattern
         IN  [str EXCEPT ![first] = by]
    ELSE str

\* The template with its placeholders filled in.
Substituted(str, fmt) ==
    ReplaceFirst(
        ReplaceFirst(
            ReplaceFirst(
                ReplaceFirst(str, "{timestamp}", "2024-01-15T10-30-00"),
                "{date}", "2024-01-15"),
            "{time}", "10-30-00"),
        "{format}", fmt)

Extension(fmt) == IF fmt = "jpeg" THEN "jpg" ELSE "png"

\* filename.endsWith(`.${extension}`)
EndsWithExtension(str, extension) ==
    /\ Len(str) >= 2
    /\ str[Len(str) - 1] = "."
    /\ str[Len(str)] = extension

\* A generateFilename that appends the extension without looking.
generateFilename_alwaysAppends(str, fmt) ==
    Substituted(str, fmt) \o <<".", Extension(fmt)>>

generateFilename(str, fmt) ==
    LET name == Substituted(str, fmt)
        extension == Extension(fmt)
    IN  IF ~EndsWithExtension(name, extension)
        THEN name \o <<".", extension>>
        ELSE name

InitFilename ==
    /\ OthersIdle
    /\ RetryIdle
    /\ ClassifyIdle
    /\ ConvertIdle
    /\ TooltipIdle
    /\ template \in Templates
    /\ format \in {"png", "jpeg"}
    /\ filename = Undefined

GenerateFilename ==
    /\ filename = Undefined
    /\ filename' = Some(generateFilename(template, format))
    /\ UNCHANGED <<notFilenameVars, template, format>>

NextFilename == GenerateFilename

SpecFilename == InitFilename /\ [][NextFilename]_vars

----------------------------------------------------------------------------
(* The tooltips of the content script *)

\* The largest number of tooltips shown in one behaviour.
MaxTooltips == 3

Severities == {"low", "medium", "high", "critical"}

\* A tooltip element: the function that built it, its class list, whether
\* it has the close button, and the severity it was shown with ("" when the
\* function takes none).
Tooltip(shownBy, classes, closeButton, severity) ==
    [shownBy |-> shownBy, classes |-> classes, closeButton |-> closeButton,
     severity |-> severity]

\* A pending setTimeout callback: it removes the tooltip on display when
\* that tooltip has the class `requires` ("" for an unconditional
\* removeTooltip).
Timer(delay, requires) == [delay |-> delay, requires |-> requires]

\* removeTooltip, and the record of an error tooltip going away.
DismissalsAfter(by) ==
    IF tooltipElement # Undefined
       /\ Get(tooltipElement).shownBy = "showErrorTooltip"
    THEN dismissals \cup {[id |-> Get(tooltipElement).id,
                           severity |-> Get(tooltipElement).severity,
                           by |-> by]}
    ELSE dismissals

\* A show* function: removeTooltip, the new element, and the timers it
\* arms.
Show(tooltip, armed) ==
    /\ shown < MaxTooltips
    /\ shown' = shown + 1
    /\ dismissals' = DismissalsAfter("replaced")
    /\ tooltipElement' =
           Some([id |-> shown + 1, shownBy |-> tooltip.shownBy,
                 classes |-> tooltip.classes,
                 closeButton |-> tooltip.closeButton,
                 severity |-> tooltip.severity])
    /\ tooltipTimers' =
           tooltipTimers \cup
               {[id |-> shown + 1, delay |-> t.delay, requires |-> t.requires]
                   : t \in armed}
    /\ UNCHANGED notTooltipVars

showTooltip ==
    Tooltip("showTooltip", {"screenshot-tooltip"}, FALSE, "")

showProgressTooltip ==
    Tooltip("showProgressTooltip",
            {"screenshot-tooltip", "screenshot-progress-tooltip"}, FALSE, "")

showManualSaveTooltip ==
    Tooltip("showManualSaveTooltip",
            {"screenshot-tooltip", "screenshot-error-tooltip",
             "screenshot-manual-save-tooltip"}, TRUE, "")

showRetryTooltip ==
    Tooltip("showRetryTooltip",
            {"screenshot-tooltip", "screenshot-error-tooltip",
             "screenshot-retry-tooltip"}, FALSE, "")

autoRemoveDelay(severity) ==
    IF severity = "critical" THEN 0
    ELSE IF severity = "high" THEN 15000
    ELSE IF severity = "medium" THEN 8000
    ELSE 5000

\* The timers showErrorTooltip arms.
ErrorTimers(severity) ==
    IF autoRemoveDelay(severity) > 0
    THEN {Timer(autoRemoveDelay(severity), "screenshot-error-tooltip")}
    ELSE {}

showErrorTooltip(severity) ==
    Tooltip("showErrorTooltip",
            {"screenshot-tooltip", "screenshot-error-tooltip",
             <<"screenshot-error-", severity>>},
            severity \in {"high", "critical"}, severity)

InitTooltip ==
    /\ OthersIdle
    /\ RetryIdle
    /\ ClassifyIdle
    /\ ConvertIdle
    /\ FilenameIdle
    /\ TooltipIdle

\* The SCREENSHOT_PROGRESS handler.
OnProgress ==
    /\ shown < MaxTooltips
    /\ Show(showProgressTooltip, {})

\* The SCREENSHOT_COMPLETE handler: a plain tooltip and an unconditional
\* removeTooltip after 3000 ms.
OnComplete ==
    /\ shown < MaxTooltips
    /\ Show(showTooltip, {Timer(3000, "")})

\* The ERROR_OCCURRED handler.  A payload without details.severity gets the
\* default 'medium' of showErrorTooltip.
OnError ==
    \E manualSaveAvailable \in BOOLEAN, retryable \in BOOLEAN,
       severity \in Severities \cup {"undefined"} :
        /\ shown < MaxTooltips
        /\ IF manualSaveAvailable
           THEN Show(showManualSaveTooltip,
                     {Timer(30000, "screenshot-manual-save-tooltip")})
           ELSE IF retryable
           THEN Show(showRetryTooltip,
                     {Timer(10000, "screenshot-retry-tooltip")})
           ELSE LET sev == IF severity = "undefined" THEN "medium"
                           ELSE severity
                IN  Show(showErrorTooltip(sev), ErrorTimers(sev))

\* A setTimeout callback runs.
TooltipTimerFires ==
    \E t \in tooltipTimers :
        /\ tooltipTimers' = tooltipTimers \ {t}
        /\ IF /\ tooltipElement # Undefined
              /\ \/ t.requires = ""
                 \/ t.requires \in Get(tooltipElement).classes
           THEN /\ tooltipElement' = Undefined
                /\ dismissals' = DismissalsAfter("timer")
           ELSE UNCHANGED <<tooltipElement, dismissals>>
        /\ UNCHANGED <<notTooltipVars, shown>>

\* The user clicks the close button of the tooltip on display.
CloseClicked ==
    /\ tooltipElement # Undefined
    /\ Get(tooltipElement).closeButton
    /\ tooltipElement' = Undefined
    /\ dismissals' = DismissalsAfter("user")
    /\ UNCHANGED <<notTooltipVars, shown, tooltipTimers>>

NextTooltip ==
    \/ OnProgress
    \/ OnComplete
    \/ OnError
    \/ TooltipTimerFires
    \/ CloseClicked

SpecTooltip == InitTooltip /\ [][NextTooltip]_vars

----------------------------------------------------------------------------
(* MessageRouter *)

RouterTypes == {"PING", "CAPTURE_SCREENSHOT"}

Payloads == {"a", "b"}

RequestIds == {Undefined, Some("id-1"), Some("id-2")}

\* What a handler may do with a payload: return a value, resolve a promise
\* with one, throw an Error, reject with an Error, or throw a string.
HandlerKinds == {"returns", "resolves", "throwsError", "rejectsError",
                 "throwsString"}

\* The MessageRequest objects.
Requests ==
    [type : RouterTypes, payload : Payloads, requestId : RequestIds]

\* `await handler(request.payload, sender)`: the value awaited, or the
\* value thrown.
Await(handler, payload) ==
    CASE handler \in {"returns", "resolves"} ->
             [ok |-> TRUE, value |-> <<handler, payload>>]
      [] handler \in {"throwsError", "rejectsError"} ->
             [ok |-> FALSE,
              value |-> [isError |-> TRUE, message |-> <<"failed", payload>>]]
      [] OTHER ->
             [ok |-> FALSE, value |-> [isError |-> FALSE, text |-> payload]]

\* `error instanceof Error ? error.message : String(error)`
MessageOf(error) ==
    IF error.isError THEN error.message ELSE <<"String", error.text>>

\* A MessageResponse; requestId is set when the request's is not undefined.
Response(success, data, error, req) ==
    [success |-> success, data |-> data, error |-> error,
     requestId |-> req.requestId]

\* handle without its try/catch: what the handler throws rejects the call.
handle_withoutCatch(registered, req) ==
    LET handler == registered[req.type]
    IN  IF handler = Undefined
        THEN [resolved |->
                  <<Response(FALSE, Undefined,
                             Some(<<"No handler registered for message type: ",
                                    req.type>>), req)>>,
              rejected |-> 0]
        ELSE LET result == Await(Get(handler), req.payload)
             IN  IF result.ok
                 THEN [resolved |->
                           <<Response(TRUE, Some(result.value), Undefined,
                                      req)>>,
                       rejected |-> 0]
                 ELSE [resolved |-> <<>>, rejected |-> 1]

\* MessageRouter.handle: the responses the returned promise resolves with
\* and the number of times it rejects.
handle(registered, req) ==
    LET handler == registered[req.type]
    IN  IF handler = Undefined
        THEN [resolved |->
                  <<Response(FALSE, Undefined,
                             Some(<<"No handler registered for message type: ",
                                    req.type>>), req)>>,
              rejected |-> 0]
        ELSE LET result == Await(Get(handler), req.payload)
             IN  IF result.ok
                 THEN [resolved |->
                           <<Response(TRUE, Some(result.value), Undefined,
                                      req)>>,
                       rejected |-> 0]
                 ELSE [resolved |->
                           <<Response(FALSE, Undefined,
                                      Some(MessageOf(result.value)), req)>>,
                       rejected |-> 0]

InitRouter ==
    /\ CoreIdle
    /\ OptimizerIdle
    /\ ProgressiveIdle
    /\ handlers = [t \in RouterTypes |-> Undefined]
    /\ request = Undefined
    /\ responses = <<>>
    /\ rejections = 0

\* MessageRouter.register
Register ==
    \E type \in RouterTypes, handler \in HandlerKinds :
        /\ handlers' = [handlers EXCEPT ![type] = Some(handler)]
        /\ UNCHANGED <<notRouterVars, request, responses, rejections>>

\* A request arrives and MessageRouter.handle runs on it.
Handle ==
    \E req \in Requests :
        /\ request' = Some(req)
        /\ responses' = handle(handlers, req).resolved
        /\ rejections' = handle(handlers, req).rejected
        /\ UNCHANGED <<notRouterVars, handlers>>

NextRouter ==
    \/ Register
    \/ Handle

SpecRouter == InitRouter /\ [][NextRouter]_vars

----------------------------------------------------------------------------
(* PerformanceOptimizer.calculateOptimalSegmentSize *)

\* memoryThreshold is 400, 800, ... 400 * this.
MaxThresholdUnits == 8

\* The values of opts.maxSegmentSize tried: below the minimum of 100, just
\* above it, and the default.
SegmentSizes == {50, 150, 2048}

\* A number that may be Infinity.
Infinity == [finite |-> FALSE, value |-> 0]

Finite(n) == [finite |-> TRUE, value |-> n]

\* Math.min(a, b) of a finite a and a b that may be Infinity.
MathMin(a, b) == IF b.finite THEN Min(a, b.value) ELSE a

\* Math.floor(opts.memoryThreshold / memoryPerPixelRow / 2); a division by
\* zero gives Infinity.
maxRowsForMemory(input) ==
    LET bytesPerPixel == 4
        scaledWidth == input.elementWidth * input.devicePixelRatio
        memoryPerPixelRow == scaledWidth * bytesPerPixel
    IN  IF memoryPerPixelRow = 0
        THEN Infinity
        ELSE Finite((input.memoryThreshold \div memoryPerPixelRow) \div 2)

\* calculateOptimalSegmentSize without its last line.
calculateOptimalSegmentSize_withoutMinimum(input) ==
    MathMin(input.maxSegmentSize, maxRowsForMemory(input))

calculateOptimalSegmentSize(input) ==
    LET optimalHeight ==
            MathMin(input.maxSegmentSize, maxRowsForMemory(input))
    IN  Max(100, optimalHeight)

InitOptimizer ==
    /\ CoreIdle
    /\ RouterIdle
    /\ ProgressiveIdle
    /\ sizeInput \in
           {Some(i) :
               i \in [elementWidth : 0..MaxElemWidth,
                      devicePixelRatio : 1..MaxDpr,
                      memoryThreshold :
                          {400 * k : k \in 1..MaxThresholdUnits},
                      maxSegmentSize : SegmentSizes]}
    /\ optimalSize = Undefined

CalculateOptimalSegmentSize ==
    /\ optimalSize = Undefined
    /\ optimalSize' = Some(calculateOptimalSegmentSize(Get(sizeInput)))
    /\ UNCHANGED <<notOptimizerVars, sizeInput>>

NextOptimizer == CalculateOptimalSegmentSize

SpecOptimizer == InitOptimizer /\ [][NextOptimizer]_vars

----------------------------------------------------------------------------
(* PerformanceOptimizer.processSegmentsProgressively *)

\* The longest `segments` array tried.
MaxItems == 4

\* How the promise `processor` returns for an item settles.
ProcessorOutcomes == {"resolves", "rejects"}

\* What `processor(segment, index)` resolves or rejects with.
ProcessorValue(position, index) == [segment |-> position, index |-> index]

\* A call of `processor`: segments[position] (1-based here) with `index`.
ProcessorCall(position, index) == [segment |-> position, index |-> index]

\* Math.max(1, Math.floor(opts.memoryThreshold / memoryPerSegment / 2))
\* with memoryPerSegment = opts.memoryThreshold / segments.length: half the
\* length (for an empty array memoryPerSegment is Infinity and the
\* quotient 0).
batchSize(length) == Max(1, length \div 2)

\* segments.slice(i, j) with one item too many, as positions.
slice_oneTooMany(length, i, j) == {k \in 1..length : i < k /\ k <= j + 1}

\* segments.slice(i, j), as the (1-based) positions of the items.
slice(length, i, j) == {k \in 1..length : i < k /\ k <= j}

\* The calls batch.map makes for the items at `positions`, in order.
RECURSIVE CallsOf(_, _)
CallsOf(positions, from) ==
    IF positions = {}
    THEN <<>>
    ELSE LET k == SetMin(positions)
         IN  <<ProcessorCall(k, from)>>
                 \o CallsOf(positions \ {k}, from + 1)

\* Promise.all over the calls: how it can settle.  It resolves with the
\* values in the order of the calls, or rejects with what any rejecting
\* call rejected with.
PromiseAll(callList) ==
    LET rejecting ==
            {n \in 1..Len(callList) :
                items[callList[n].segment] = "rejects"}
    IN  IF rejecting = {}
        THEN {[ok |-> TRUE,
               value |-> [n \in 1..Len(callList) |->
                             ProcessorValue(callList[n].segment,
                                            callList[n].index)]]}
        ELSE {[ok |-> FALSE,
               value |-> ProcessorValue(callList[n].segment,
                                        callList[n].index)] :
                 n \in rejecting}

\* memoryWarningThreshold and memoryCleanupThreshold, in tenths of the heap.
memoryWarningThreshold == 8
memoryCleanupThreshold == 7

\* memoryCleanupInterval, in ms.
memoryCleanupInterval == 5000

\* The pause at the end of performMemoryCleanup and the pause between two
\* batches, in ms.
CleanupPause == 100
BatchPause == 10

\* The usage ratios usedJSHeapSize / totalJSHeapSize tried, in tenths: at
\* the cleanup threshold, at the warning threshold and above both.
HeapRatios ==
    {memoryCleanupThreshold, memoryWarningThreshold,
     memoryWarningThreshold + 1}

\* How long the processing of one batch may take, in ms.
Durations == {0, memoryCleanupInterval}

\* A check that forgets the interval since the last pass.
shouldPerformMemoryCleanup_withoutInterval(at, last, info) ==
    /\ info # Undefined
    /\ Get(info) > memoryCleanupThreshold

\* shouldPerformMemoryCleanup at time `at`, with lastMemoryCleanup = last and
\* performance.memory = info (Undefined where the host has none).
shouldPerformMemoryCleanup(at, last, info) ==
    /\ info # Undefined
    /\ ~(at - last < memoryCleanupInterval)
    /\ Get(info) > memoryCleanupThreshold

\* One pass of performMemoryCleanup, started at time `at` by the caller
\* `by` when lastMemoryCleanup was `last`.
CleanupPass(at, by, last, info) ==
    [at |-> at, by |-> by, last |-> last, memInfo |-> info]

InitProgressive ==
    /\ CoreIdle
    /\ RouterIdle
    /\ OptimizerIdle
    /\ items \in UNION {[1..n -> ProcessorOutcomes] : n \in 0..MaxItems}
    /\ enableProgressiveLoading \in BOOLEAN
    /\ ppc = "called"
    /\ batchStart = 0
    /\ processorCalls = <<>>
    /\ results = <<>>
    /\ processed = Undefined
    /\ enableMemoryCleanup \in BOOLEAN
    /\ now = memoryCleanupInterval
    /\ memInfo \in {Undefined} \cup {Some(r) : r \in HeapRatios}
    /\ lastMemoryCleanup = 0
    /\ cleanups = <<>>

\* Progressive loading is off: Promise.all(segments.map(processor)).
ProcessAllAtOnce ==
    /\ ppc = "called"
    /\ ~enableProgressiveLoading
    /\ LET callList == CallsOf(1..Len(items), 0)
       IN  /\ processorCalls' = callList
           /\ \E settled \in PromiseAll(callList) :
                  processed' = Some(settled)
    /\ ppc' = "settled"
    /\ UNCHANGED <<notProgressiveVars, items, enableProgressiveLoading,
                   batchStart, results, memoryVars>>

\* Progressive loading is on: the loop starts at i = 0.
EnterLoop ==
    /\ ppc = "called"
    /\ enableProgressiveLoading
    /\ ppc' = "loop"
    /\ UNCHANGED <<notProgressiveVars, items, enableProgressiveLoading,
                   batchStart, processorCalls, results, processed,
                   memoryVars>>

\* The memory side of one iteration that starts a batch at i and takes
\* `duration` ms to process it, after which performance.memory is `after`:
\* the checked pass before the batch and, when the batch resolved (`ok`)
\* and is not the last, the pass and the pause between batches.
BatchMemory(i, size, duration, after, ok) ==
    LET checked == shouldPerformMemoryCleanup(now, lastMemoryCleanup, memInfo)
        first == IF checked
                 THEN <<CleanupPass(now, "check", lastMemoryCleanup, memInfo)>>
                 ELSE <<>>
        last1 == IF checked THEN now ELSE lastMemoryCleanup
        t1 == (IF checked THEN now + CleanupPause ELSE now) + duration
        more == ok /\ i + size < Len(items)
        between == more /\ enableMemoryCleanup
        second == IF between
                  THEN <<CleanupPass(t1, "betweenBatches", last1, after)>>
                  ELSE <<>>
        t2 == IF between THEN t1 + CleanupPause ELSE t1
    IN  [cleanups |-> first \o second,
         lastMemoryCleanup |-> IF between THEN t1 ELSE last1,
         now |-> IF more THEN t2 + BatchPause ELSE t2]

\* One iteration of the loop: the pass the memory check asks for, the
\* batch at i, the pass and the pause between batches; a rejection rejects
\* the whole call.
ProcessBatch ==
    /\ ppc = "loop"
    /\ batchStart < Len(items)
    /\ LET size == batchSize(Len(items))
           batch == slice(Len(items), batchStart, batchStart + size)
           callList == CallsOf(batch, batchStart)
       IN  /\ processorCalls' = processorCalls \o callList
           /\ \E settled \in PromiseAll(callList), duration \in Durations,
                 after \in {memInfo} \cup
                     (IF memInfo = Undefined THEN {}
                      ELSE {Some(r) : r \in HeapRatios}) :
                  /\ LET memory == BatchMemory(batchStart, size, duration,
                                               after, settled.ok)
                     IN  /\ cleanups' = cleanups \o memory.cleanups
                         /\ lastMemoryCleanup' = memory.lastMemoryCleanup
                         /\ now' = memory.now
                  /\ memInfo' = after
                  /\ IF settled.ok
                     THEN /\ results' = results \o settled.value
                          /\ batchStart' = batchStart + size
                          /\ UNCHANGED <<ppc, processed>>
                     ELSE /\ processed' = Some(settled)
                          /\ ppc' = "settled"
                          /\ UNCHANGED <<results, batchStart>>
    /\ UNCHANGED <<notProgressiveVars, items, enableProgressiveLoading,
                   enableMemoryCleanup>>

\* The loop is over: return results.
ReturnResults ==
    /\ ppc = "loop"
    /\ batchStart >= Len(items)
    /\ processed' = Some([ok |-> TRUE, value |-> results])
    /\ ppc' = "settled"
    /\ UNCHANGED <<notProgressiveVars, items, enableProgressiveLoading,
                   batchStart, processorCalls, results, memoryVars>>

\* monitorMemoryUsage for a session that has metrics: above the warning
\* threshold it asks the memory check and starts a pass without awaiting
\* it.
MonitorMemoryUsage ==
    /\ ppc \in {"called", "loop"}
    /\ memInfo # Undefined
    /\ Get(memInfo) > memoryWarningThreshold
    /\ shouldPerformMemoryCleanup(now, lastMemoryCleanup, memInfo)
    /\ cleanups' = Append(cleanups,
                          CleanupPass(now, "monitor", lastMemoryCleanup,
                                      memInfo))
    /\ lastMemoryCleanup' = now
    /\ UNCHANGED <<notProgressiveVars, items, enableProgressiveLoading, ppc,
                   batchStart, processorCalls, results, processed,
                   enableMemoryCleanup, now, memInfo>>

NextProgressive ==
    \/ ProcessAllAtOnce
    \/ EnterLoop
    \/ ProcessBatch
    \/ ReturnResults
    \/ MonitorMemoryUsage

SpecProgressive == InitProgressive /\ [][NextProgressive]_vars

----------------------------------------------------------------------------
(* The long-screenshot session of the background script *)

OuterMaxAttempts == 2

StageOrder_downloadBeforeConvert ==
    <<"capture", "stitch", "download", "convert">>

\* The stages of the pipeline, each wrapped in its own handleError.
StageOrder == <<"capture", "stitch", "convert", "download">>

StageMaxAttempts(st) ==
    CASE st = "capture" -> 2
      [] st = "stitch" -> 2
      [] st = "convert" -> 2
      [] st = "download" -> 3

\* notifyProgress after a stage has returned; the download is followed by
\* the 100 of the completion.
ProgressAfter(st) ==
    CASE st = "capture" -> 50
      [] st = "stitch" -> 80
      [] st = "convert" -> 90
      [] st = "download" -> 100

\* The messages a stage's operation can reject with:
\*   "Long screenshot capture failed: ..." around a rejected chrome call
\*       or the "Element not found" of getElementRectAfterScroll,
\*   "Screenshot stitching failed: ...",
\*   "Format conversion failed: ...",
\*   "Download failed: ...".
StageFailures(st) ==
    CASE st = "capture" ->
             {{"capture", "screenshot"} \cup e :
                 e \in ChromeErrors \cup {ElementNotFoundMessage}}
      [] st = "stitch" -> {StitchingFailedMessage}
      [] st = "convert" -> {ConversionFailedMessage}
      [] st = "download" -> {{"download"}}

StageIndex(st) == CHOOSE i \in 1..Len(StageOrder) : StageOrder[i] = st

IsLastStage(st) == StageIndex(st) = Len(StageOrder)

ProgressMessage(progress) ==
    [type |-> "SCREENSHOT_PROGRESS", progress |-> progress]

CompleteMessage == [type |-> "SCREENSHOT_COMPLETE"]

\* The ERROR_OCCURRED message of notifyEnhancedError.
ErrorMessage(errorInfo, manualSaveAvailable) ==
    [type |-> "ERROR_OCCURRED", error |-> errorInfo.code,
     severity |-> errorInfo.severity, retryable |-> errorInfo.retryable,
     manualSaveAvailable |-> manualSaveAvailable, sentBy |-> "catch"]

\* The ERROR_OCCURRED message of offerManualSave: its details hold no
\* severity and no retryable.
ManualSaveMessage ==
    [type |-> "ERROR_OCCURRED", error |-> "DOWNLOAD_FAILED",
     severity |-> "undefined", retryable |-> FALSE,
     manualSaveAvailable |-> TRUE, sentBy |-> "offerManualSave"]

\* A notify* function sends only while the session id is in activeSessions.
Sent(inMap, sent, message) == IF inMap THEN Append(sent, message) ELSE sent

\* notifyProgress also records the progress on the entry it found.
WithProgress(inMap, s, progress) ==
    IF inMap THEN [s EXCEPT !.progress = progress] ELSE s

\* The largest number of segments a capture stage hands to the session.
MaxSegments == 2

InitSession ==
    /\ elementInfo = [isScrollable |-> TRUE, totalHeight |-> MaxTotalHeight,
                      visibleHeight |-> MaxVisibleHeight]
    /\ scrollSegments = NoPlan
    /\ contentSegments = NoPlan
    /\ planned = {}
    /\ CaptureIdle
    /\ SessionIdle
    /\ LaterIdle

\* captureLongScreenshot is called: a session id is generated and the outer
\* handleError starts its loop.
SessionStart ==
    /\ spc = "off"
    /\ spc' = "attempt"
    /\ UNCHANGED <<planVars, captureVars, laterVars, session, sessionInMap, outerAttempt,
                   stage, stageAttempt, timers, notifications, downloads,
                   manualSaveStore, thrown, stageError>>

\* One pass of the outer loop enters the pipeline: a fresh session object is
\* put in activeSessions and the first progress is notified.
BeginAttempt ==
    /\ spc = "attempt"
    /\ outerAttempt < OuterMaxAttempts
    /\ outerAttempt' = outerAttempt + 1
    /\ session' = [status |-> "processing", progress |-> 5,
                   totalSegments |-> 0, result |-> FALSE]
    /\ sessionInMap' = TRUE
    /\ notifications' = Append(notifications, ProgressMessage(5))
    /\ spc' = "dpr"
    /\ UNCHANGED <<planVars, captureVars, laterVars, stage, stageAttempt, timers,
                   downloads, manualSaveStore, thrown,
                   stageError>>

\* getDevicePixelRatio has returned (it never throws); the first stage is
\* entered.
DetectDpr ==
    /\ spc = "dpr"
    /\ session' = WithProgress(sessionInMap, session, 10)
    /\ notifications' = Sent(sessionInMap, notifications, ProgressMessage(10))
    /\ stage' = StageOrder[1]
    /\ stageAttempt' = 0
    /\ spc' = "stage"
    /\ UNCHANGED <<planVars, captureVars, laterVars, sessionInMap, outerAttempt, timers,
                   downloads, manualSaveStore, thrown>>
    /\ stageError' = Undefined

\* Control leaves the stage st for the code after it.
Leave(st) ==
    IF IsLastStage(st)
    THEN /\ spc' = "finish"
         /\ stage' = "none"
         /\ stageAttempt' = 0
    ELSE /\ spc' = "stage"
         /\ stage' = StageOrder[StageIndex(st) + 1]
         /\ stageAttempt' = 0

\* The stage's operation resolves: handleError returns and the pipeline
\* moves on.
StageSucceeds ==
    /\ spc = "stage"
    /\ downloads' = IF stage = "download" THEN downloads + 1 ELSE downloads
    /\ \E n \in 1..MaxSegments :
          LET s == IF stage = "capture"
                   THEN [session EXCEPT !.totalSegments = n]
                   ELSE session
          IN  IF stage = "download"
              THEN /\ session' = s
                   /\ notifications' = notifications
              ELSE /\ session' =
                          WithProgress(sessionInMap, s, ProgressAfter(stage))
                   /\ notifications' =
                          Sent(sessionInMap, notifications,
                               ProgressMessage(ProgressAfter(stage)))
    /\ Leave(stage)
    /\ UNCHANGED <<planVars, captureVars, laterVars, sessionInMap, outerAttempt, timers,
                   manualSaveStore, thrown>>
    /\ stageError' = Undefined

\* offerManualSave: nothing without the entry; otherwise the data is stored
\* and the tab is told, unless chrome.storage.local.set rejects.
OfferManualSave ==
    \/ /\ ~sessionInMap
       /\ UNCHANGED <<manualSaveStore, notifications>>
    \/ /\ sessionInMap
       /\ \/ /\ manualSaveStore' = TRUE
             /\ notifications' =
                    Append(notifications, ManualSaveMessage)
          \/ UNCHANGED <<manualSaveStore, notifications>>

\* A pipeline whose failure path arms no clean-up timer.
PipelineRejects_noCleanup(message) ==
    IF RetriesAfter(message, outerAttempt, OuterMaxAttempts)
    THEN /\ spc' = "attempt"
         /\ UNCHANGED <<session, notifications, thrown, timers>>
    ELSE /\ spc' = "failed"
         /\ session' = IF sessionInMap
                       THEN [session EXCEPT !.status = "error",
                                            !.progress = 0]
                       ELSE session
         /\ thrown' = Some("PROCESSING_ERROR")
         /\ UNCHANGED <<notifications, timers>>

\* The pipeline rejects with `message`: its finally block arms the 5000 ms
\* clean-up and the outer handleError decides between another pass and
\* giving up; giving up runs the .catch handler.
PipelineRejects(message) ==
    IF RetriesAfter(message, outerAttempt, OuterMaxAttempts)
    THEN /\ spc' = "attempt"
         /\ timers' = timers + 1
         /\ UNCHANGED <<session, notifications, thrown>>
    ELSE LET error == handleErrorThrows(message)
             errorInfo == createErrorInfo(classifyError(error))
         IN  /\ spc' = "failed"
             /\ session' = IF sessionInMap
                           THEN [session EXCEPT !.status = "error",
                                                !.progress = 0]
                           ELSE session
             /\ notifications' =
                    Sent(sessionInMap, notifications,
                         ErrorMessage(errorInfo,
                                      shouldOfferManualSave(errorInfo)))
             /\ timers' = timers + 2
             /\ thrown' = Some(errorInfo.code)

\* The stage's operation rejects: handleError retries it, or gives up and
\* throws; only the download's throw is caught inside the pipeline.
StageFails ==
    /\ spc = "stage"
    /\ downloads' = IF stage = "download" THEN downloads + 1 ELSE downloads
    /\ \E failure \in StageFailures(stage) :
          /\ stageError' = Some(failure)
          /\ IF RetriesAfter(failure, stageAttempt + 1, StageMaxAttempts(stage))
             THEN /\ stageAttempt' = stageAttempt + 1
                  /\ UNCHANGED <<spc, stage, session, timers, notifications,
                                 manualSaveStore, thrown>>
             ELSE IF stage = "download"
             THEN /\ OfferManualSave
                  /\ Leave(stage)
                  /\ UNCHANGED <<session, timers, thrown>>
             ELSE /\ PipelineRejects(handleErrorThrows(failure))
                  /\ stage' = "none"
                  /\ stageAttempt' = 0
                  /\ UNCHANGED manualSaveStore
    /\ UNCHANGED <<planVars, captureVars, laterVars, sessionInMap, outerAttempt>>

\* The code after the download: progress 100, the session object is marked
\* completed and given its result, completion is notified, and the finally
\* block arms the 5000 ms clean-up.
Finish ==
    /\ spc = "finish"
    /\ session' = [session EXCEPT !.status = "completed", !.progress = 100,
                                  !.result = TRUE]
    /\ notifications' =
           Sent(sessionInMap,
                Sent(sessionInMap, notifications, ProgressMessage(100)),
                CompleteMessage)
    /\ timers' = timers + 1
    /\ spc' = "returned"
    /\ UNCHANGED <<planVars, captureVars, laterVars, sessionInMap, outerAttempt, stage,
                   stageAttempt, downloads, manualSaveStore, thrown,
                   stageError>>

\* A clean-up timer fires: activeSessions.delete(sessionId).
TimerFires ==
    /\ timers > 0
    /\ timers' = timers - 1
    /\ sessionInMap' = FALSE
    /\ UNCHANGED <<planVars, captureVars, laterVars, spc, session, outerAttempt, stage,
                   stageAttempt, notifications, downloads, manualSaveStore,
                   thrown, stageError>>

NextSession ==
    \/ SessionStart
    \/ BeginAttempt
    \/ DetectDpr
    \/ StageSucceeds
    \/ StageFails
    \/ Finish
    \/ TimerFires

SpecSession == InitSession /\ [][NextSession]_vars

\* Every pending call settles and every armed timer fires.
SpecSessionFair ==
    /\ SpecSession
    /\ WF_vars(NextSession)
    /\ WF_vars(TimerFires)


----------------------------------------------------------------------------
(* The capture stage of the session: captureLongScreenshot under its
   handleError *)

\* The handleError around the capture stage goes round its loop: the
\* capture that threw is called again, from its first line.
RetryCapture ==
    /\ cpc = "failed"
    /\ RetriesAfter(Get(captureResult).keywords, stageAttempt + 1,
                    StageMaxAttempts("capture"))
    /\ stageAttempt' = stageAttempt + 1
    /\ cpc' = "idle"
    /\ segIndex' = 0
    /\ shot' = Undefined
    /\ segments' = <<>>
    /\ captureResult' = Undefined
    /\ UNCHANGED <<planVars, tab, devicePixelRatio, calls, stitched, laterVars,
                   spc, session, sessionInMap, outerAttempt, stage, timers,
                   notifications, downloads, manualSaveStore, thrown,
                   stageError>>

NextCaptureStage ==
    \/ NextCapture
    \/ RetryCapture

SpecCaptureStage == InitCapture /\ [][NextCaptureStage]_vars
----------------------------------------------------------------------------
(* Properties of the planner *)

Scrolls(info) == info.isScrollable /\ info.totalHeight > info.visibleHeight

TotalScrollHeight(info) == (info.totalHeight - info.visibleHeight) * Scale

Last(s) == s[Len(s)]

NonDecreasing(s) == \A i \in 1..(Len(s) - 1) : s[i].y <= s[i + 1].y

\* The 50-segment limit cut the plan short: the loop left through its
\* safety break, before any offset reached the bottom.
CapTriggered(s) == Len(s) >= SegmentLimit

PlansRun ==
    (IF "processor" \in planned THEN {scrollSegments} ELSE {})
        \cup (IF "content" \in planned THEN {contentSegments} ELSE {})

\* C1: for a scrollable element with totalHeight > visibleHeight the planned
\* y values are non-decreasing, and the last offset is marked final and
\* equals totalHeight - visibleHeight, unless the 50-segment limit triggered.
C1_LastOffsetIsFinalAtBottom ==
    \A s \in PlansRun :
        Scrolls(elementInfo) =>
            /\ NonDecreasing(s)
            /\ \/ CapTriggered(s)
               \/ /\ Last(s).isComplete
                  /\ Last(s).y = TotalScrollHeight(elementInfo)

\* C3: consecutive viewport windows [y_i, y_i + visibleHeight] of a plan
\* overlap or touch, and the last window reaches totalHeight.
C3_WindowsCoverElement ==
    \A s \in PlansRun :
        Scrolls(elementInfo) =>
            /\ \A i \in 1..(Len(s) - 1) :
                   s[i + 1].y - s[i].y <= elementInfo.visibleHeight * Scale
            /\ Last(s).y + elementInfo.visibleHeight * Scale
                   >= elementInfo.totalHeight * Scale

\* C4: an element that is not scrollable, or whose totalHeight does not
\* exceed its visibleHeight, gets exactly one offset {x: 0, y: 0}, marked
\* final.
C4_SingleOffsetWhenNotScrolling ==
    \A s \in PlansRun :
        ~Scrolls(elementInfo) =>
            /\ Len(s) = 1
            /\ s[1] = [x |-> 0, y |-> 0, isComplete |-> TRUE]

\* C4 witness: the processor's planner has run on an element that is taller
\* than its visible part but is not scrollable.
C4_Witness ==
    /\ "processor" \in planned
    /\ ~elementInfo.isScrollable
    /\ elementInfo.totalHeight > elementInfo.visibleHeight
    /\ Len(scrollSegments) = 1

\* C5: a plan never holds more than 50 offsets, and when the limit cuts the
\* plan short its last offset is marked final.
C5_AtMostFiftyOffsetsLastFinal ==
    \A s \in PlansRun :
        /\ Len(s) <= SegmentLimit
        /\ (CapTriggered(s) /\ Last(s).y < TotalScrollHeight(elementInfo))
               => Last(s).isComplete

----------------------------------------------------------------------------
(* What a canvas shows.  Row q of a raster or canvas is a physical pixel   *)
(* row; it shows a content row of the element (row 0 is the top of the     *)
(* element's scrollable content), the page around the element, or nothing. *)

Background == 0 - 1
Blank == 0 - 2

\* The content row that pixel row r (0-based) of a captured raster shows.
SourceRow(img, r) ==
    IF /\ img.elExists
       /\ img.elTop * img.dpr <= r
       /\ r < (img.elTop + img.elHeight) * img.dpr
    THEN img.scrollTop * img.dpr + (r - img.elTop * img.dpr)
    ELSE Background

\* The rows after one drawImage call whose source and destination heights
\* agree: destination row dy + k shows source row sy + k; a negative height
\* runs upwards from dy; rows outside the source image are not drawn.
RowsAfter(rows, d) ==
    [q \in 1..Len(rows) |->
        LET k == Fx(q - 1) - d.dy
            src == (d.sy + k) \div Scale
        IN  IF /\ Min(0, d.dh) <= k
               /\ k < Max(0, d.dh)
               /\ 0 <= src
               /\ src < d.img.height
            THEN SourceRow(d.img, src)
            ELSE rows[q]]

RECURSIVE Paint(_, _, _)
Paint(rows, draws, i) ==
    IF i > Len(draws) THEN rows
    ELSE Paint(RowsAfter(rows, draws[i]), draws, i + 1)

CanvasRows(canvas) ==
    Paint([q \in 1..(canvas.height \div Scale) |-> Blank], canvas.draws, 1)

----------------------------------------------------------------------------
(* Properties of the long capture and the stitcher *)

Ended == cpc \in {"captured", "failed"}

\* Every scroll landed at its requested offset and the element measured
\* visibleHeight in every segment.
IdealCapture ==
    \A i \in 1..Len(segments) :
        /\ segments[i].dataUrl.elExists
        /\ Fx(segments[i].dataUrl.scrollTop) = segments[i].scrollPosition.y
        /\ segments[i].dataUrl.elHeight = elementInfo.visibleHeight
        /\ segments[i].elementRect # Undefined
        /\ Get(segments[i].elementRect).height = elementInfo.visibleHeight

\* An element without transform, shadow, iframe or fixed positioning.
PlainElement(info) ==
    /\ ~info.hasTransform
    /\ ~info.hasShadow
    /\ ~info.isInIframe
    /\ ~info.isFixed

\* C2: when every scroll lands and the element measures visibleHeight, the
\* stitched output of a long capture of a plain element shows the content
\* rows 0 .. totalHeight - 1 (in physical pixels), each once and in order.
C2_StitchedRowsExactlyOnce ==
    (/\ stitched # Undefined
     /\ Scrolls(elementInfo)
     /\ PlainElement(elementInfo)
     /\ IdealCapture) =>
        /\ Get(stitched).kind = "raster"
        /\ CanvasRows(Get(stitched))
               = [q \in 1..(elementInfo.totalHeight * devicePixelRatio)
                      |-> q - 1]

\* C7: when a long capture of a scrolling element has ended, by success or
\* by failure, a RESET_SCROLL was issued after the last scroll instruction
\* the page carried out, and the element is back at scrollTop 0.
C7_ScrollResetOnEveryExit ==
    (Ended /\ Scrolls(elementInfo)) =>
        /\ \A k \in 1..Len(calls) :
               (calls[k].op = "scroll" /\ calls[k].reply = "ok") =>
                   \E j \in (k + 1)..Len(calls) : calls[j].op = "reset"
        /\ tab.exists => tab.scrollTop = 0

\* C8: when the page answers a scroll instruction of a long capture with a
\* failure, no raster is captured for that offset and the capture does not
\* succeed.
C8_FailedScrollStopsCapture ==
    \A k \in 1..Len(calls) :
        (/\ Scrolls(elementInfo)
         /\ calls[k].op = "scroll"
         /\ calls[k].reply = "failed") =>
            /\ ~\E j \in 1..Len(calls) :
                   /\ calls[j].op = "capture"
                   /\ calls[j].i = calls[k].i
            /\ cpc # "captured"

\* C9: stitching two or more segments gives an output whose height is the
\* sum of the heights the segments contribute and is at most
\* totalHeight * devicePixelRatio.
C9_HeightIsSumOfContributions ==
    (/\ stitched # Undefined
     /\ Len(segments) >= 2
     /\ Get(stitched).kind = "raster") =>
        /\ Get(stitched).height
               = ContributedHeight(segments, elementInfo, devicePixelRatio)
        /\ Get(stitched).height
               <= Fx(elementInfo.totalHeight * devicePixelRatio)

\* C10: stitching exactly one segment returns the raster that cropping the
\* segment's raster to the element region returns: a canvas of the size of
\* the crop area with the one drawImage call that copies that area.
C10_SingleSegmentIsCrop ==
    (stitched # Undefined /\ Len(segments) = 1) =>
        LET crop == adjustCropArea(
                        calculateComplexElementCropArea(elementInfo,
                                                        devicePixelRatio),
                        Fx(segments[1].dataUrl.width),
                        Fx(segments[1].dataUrl.height))
            out == Get(stitched)
        IN  /\ out = cropToElement(segments[1].dataUrl, elementInfo,
                                   devicePixelRatio)
            /\ out.width = crop.width
            /\ out.height = crop.height
            /\ Len(out.draws) = 1
            /\ out.draws[1].sx = crop.x
            /\ out.draws[1].sy = crop.y
            /\ out.draws[1].sw = crop.width
            /\ out.draws[1].sh = crop.height

\* C10 witness: one segment was stitched for an element whose crop region
\* (its shadow bounds) is not the rectangle measured for the segment.
C10_Witness ==
    /\ stitched # Undefined
    /\ Len(segments) = 1
    /\ elementInfo.hasShadow
    /\ elementInfo.totalHeight > elementInfo.visibleHeight
    /\ Get(stitched).kind = "raster"

\* C11: stitching an empty list of segments fails with the stitching
\* error and hands back no raster.
C11_EmptyListFailsStitching ==
    (stitched # Undefined /\ Len(segments) = 0) =>
        /\ Get(stitched).kind = "error"
        /\ "stitching failed" \in Get(stitched).keywords

\* C11 witness: the stitcher has run on the empty list.
C11_Witness ==
    /\ stitched # Undefined
    /\ segments = <<>>

----------------------------------------------------------------------------
(* Properties of the session *)

HasMessage(type) ==
    \E i \in 1..Len(notifications) : notifications[i].type = type

ProgressReached(progress) ==
    \E i \in 1..Len(notifications) :
        /\ notifications[i].type = "SCREENSHOT_PROGRESS"
        /\ notifications[i].progress = progress

\* C6: a session that has ended in failure has produced nothing: no
\* download was started, no completion was notified, no result is on the
\* session object and nothing is stored for a manual save.
C6_FailedSessionLeavesNoArtifact ==
    spc = "failed" =>
        /\ downloads = 0
        /\ ~HasMessage("SCREENSHOT_COMPLETE")
        /\ ~session.result
        /\ ~manualSaveStore

\* A session that failed after its capture and stitching stages succeeded.
C6_Witness ==
    /\ spc = "failed"
    /\ ProgressReached(80)
    /\ session.totalSegments > 0

\* The percentages of the progress notifications sent so far, in order.
ProgressSent ==
    SelectSeq(notifications,
              LAMBDA n : n.type = "SCREENSHOT_PROGRESS")

\* C16: within a session the percentages of successive progress
\* notifications never decrease, and the progress kept on the session
\* object is never below a percentage already notified.
C16_ProgressNeverDecreases ==
    /\ \A i \in 1..Len(ProgressSent) : \A j \in i..Len(ProgressSent) :
           ProgressSent[i].progress <= ProgressSent[j].progress
    /\ \A i \in 1..Len(ProgressSent) :
           ProgressSent[i].progress <= session.progress

----------------------------------------------------------------------------
(* Properties of handleError *)

Retryable(message) == createErrorInfo(classifyError(message)).retryable

\* The operation rejects k times with retryable errors and then resolves.
FailsThenResolves(k) ==
    /\ k + 1 <= MaxAttemptsBound
    /\ \A i \in 1..k : ~operation[i].ok /\ Retryable(operation[i].message)
    /\ operation[k + 1].ok

\* C12: an operation that rejects k < maxAttempts times with retryable
\* errors and then resolves has been called k + 1 times when handleError is
\* done, and handleError has returned; the operation is never called more
\* than maxAttempts times.
C12_RetriesUntilSuccess ==
    /\ invocations <= maxAttempts
    /\ \A k \in 0..(MaxAttemptsBound - 1) :
           (hpc = "done" /\ k < maxAttempts /\ FailsThenResolves(k)) =>
               /\ invocations = k + 1
               /\ Get(handled).kind = "returned"

\* C12 witness: maxAttempts is 3 and the third call resolved after two
\* CAPTURE_FAILED rejections.
C12_Witness ==
    /\ hpc = "done"
    /\ maxAttempts = 3
    /\ FailsThenResolves(2)
    /\ classifyError(operation[1].message) = "CAPTURE_FAILED"
    /\ classifyError(operation[2].message) = "CAPTURE_FAILED"
    /\ invocations = 3
    /\ Len(delays) = 2

NotRetryableKinds == {"ELEMENT_NOT_FOUND", "PERMISSION_DENIED"}

\* C13: once a call has failed with an error classified ELEMENT_NOT_FOUND
\* or PERMISSION_DENIED, handleError calls the operation no more, waits no
\* delay for that failure, runs no fallback strategy and throws; when the
\* first failure is of that kind the operation has been called exactly once
\* and no delay was waited at all.
C13_NoRetryWhenNotRetryable ==
    (/\ lastError # Undefined
     /\ classifyError(Get(lastError)) \in NotRetryableKinds) =>
        /\ hpc \in {"after", "done"}
        /\ Len(delays) = invocations - 1
        /\ strategiesRun = <<>>
        /\ hpc = "done" => Get(handled).kind = "thrown"
        /\ (~operation[1].ok /\ operation[1].message = Get(lastError)) =>
               (invocations = 1 /\ delays = <<>>)

\* C13 witness: handleError is done with maxAttempts 3 after the first call
\* failed with "Element not found".
C13_Witness ==
    /\ hpc = "done"
    /\ maxAttempts = 3
    /\ operation[1] = Rejects(ElementNotFoundMessage)
    /\ invocations = 1
    /\ Get(handled).kind = "thrown"

\* handleError has thrown after its loop ended on a failed call.
Exhausted ==
    /\ hpc = "done"
    /\ Get(handled).kind = "thrown"

\* C14: the error handleError throws when its attempts are exhausted is the
\* classified error of the last failure: it is named after that kind, its
\* message is the kind's user-facing message, and it carries the kind's
\* errorInfo with the fallbackAvailable flag.
C14_ThrowsClassifiedError ==
    Exhausted =>
        LET errorInfo == createErrorInfo(classifyError(Get(lastError)))
            error == Get(handled).error
        IN  /\ error.name = <<"ScreenshotError", errorInfo.code>>
            /\ error.chineseMessage = errorInfo.chineseMessage
            /\ ~error.allFallbacksFailed
            /\ error.errorInfo = Some(errorInfo)
            /\ Get(error.errorInfo).fallbackAvailable
                   = errorInfo.fallbackAvailable

----------------------------------------------------------------------------
(* Properties of classifyError *)

\* C15: a message containing "element" or "selector" is classified
\* ELEMENT_NOT_FOUND; otherwise one containing "permission" or "denied"
\* PERMISSION_DENIED; otherwise one containing "download" or "save"
\* DOWNLOAD_FAILED; otherwise one containing "capture" or "screenshot"
\* CAPTURE_FAILED; every other message PROCESSING_ERROR.
C15_KeywordRulesInOrder ==
    classification # Undefined =>
        Get(classification) =
            IF errorMessage \cap {"element", "selector"} # {}
            THEN "ELEMENT_NOT_FOUND"
            ELSE IF errorMessage \cap {"permission", "denied"} # {}
            THEN "PERMISSION_DENIED"
            ELSE IF errorMessage \cap {"download", "save"} # {}
            THEN "DOWNLOAD_FAILED"
            ELSE IF errorMessage \cap {"capture", "screenshot"} # {}
            THEN "CAPTURE_FAILED"
            ELSE "PROCESSING_ERROR"

----------------------------------------------------------------------------
(* Properties of convertFormat and generateFilename *)

FillsOf(image) ==
    {i \in 1..Len(image.ops) : image.ops[i].op = "fillRect"}

\* C18: a conversion to jpeg fills the whole canvas with white before it
\* draws the source image; a conversion to png fills nothing.
C18_JpegFillsWhiteFirst ==
    (converted # Undefined /\ Get(converted).kind = "raster") =>
        LET out == Get(converted)
        IN  IF Get(options).format = "jpeg"
            THEN /\ Len(out.ops) = 2
                 /\ out.ops[1] = FillRect("#FFFFFF", 0, 0, out.width,
                                          out.height)
                 /\ out.width = Get(dataUrl).width
                 /\ out.height = Get(dataUrl).height
                 /\ out.ops[2].op = "drawImage"
            ELSE FillsOf(out) = {}

\* C18 witness: an image larger than one pixel was converted to jpeg.
C18_Witness ==
    /\ converted # Undefined
    /\ Get(converted).kind = "raster"
    /\ Get(options).format = "jpeg"
    /\ Get(dataUrl).width > 1
    /\ Get(dataUrl).height > 1

\* C19: the name generateFilename returns ends with the extension of the
\* format (.jpg for jpeg, .png for png): the filled-in template itself when
\* it already ends with it, and otherwise the filled-in template followed
\* by the extension.
C19_NameEndsWithExtension ==
    filename # Undefined =>
        LET name == Substituted(template, format)
            extension == Extension(format)
        IN  /\ EndsWithExtension(Get(filename), extension)
            /\ EndsWithExtension(name, extension) => Get(filename) = name
            /\ ~EndsWithExtension(name, extension) =>
                   Get(filename) = name \o <<".", extension>>

\* C19 witness: a template that already ended with .jpg was used for a
\* jpeg and came back unchanged.
C19_Witness ==
    /\ filename # Undefined
    /\ format = "jpeg"
    /\ template = <<"shot", ".", "jpg">>
    /\ Get(filename) = template

----------------------------------------------------------------------------
(* Properties of the tooltips *)

\* C20: no timer ever removes an error tooltip of severity critical or
\* high, and an error tooltip of severity medium or low on display has a
\* timer of its own pending that will remove it.
C20_SevereErrorsStayUntilDismissed ==
    /\ \A d \in dismissals :
           d.by = "timer" => d.severity \in {"medium", "low"}
    /\ (/\ tooltipElement # Undefined
        /\ Get(tooltipElement).shownBy = "showErrorTooltip"
        /\ Get(tooltipElement).severity \in {"medium", "low"}) =>
           \E t \in tooltipTimers :
               /\ t.id = Get(tooltipElement).id
               /\ t.requires \in Get(tooltipElement).classes

----------------------------------------------------------------------------
(* Properties of MessageRouter *)

\* The handler registered for the type of the request when handle ran on
\* it (handle leaves the handlers alone).
Handled(req) == handlers[req.type]

Completes(handler) == handler \in {"returns", "resolves"}

\* C21: handle never rejects and resolves with exactly one response for
\* every request: success and the handler's result when a handler is
\* registered for the type and completes; success = false and an error
\* message when no handler is registered or the handler throws or rejects;
\* and the requestId of the request whenever it has one.
C21_HandleAlwaysAnswersOnce ==
    [][(request' # request \/ responses' # responses
        \/ rejections' # rejections) =>
          LET req == Get(request')
              handler == Handled(req)
          IN  /\ rejections' = 0
              /\ Len(responses') = 1
              /\ LET response == responses'[1]
                 IN  /\ (handler # Undefined /\ Completes(Get(handler))) =>
                            /\ response.success
                            /\ response.data
                                   = Some(<<Get(handler), req.payload>>)
                            /\ response.error = Undefined
                     /\ (handler = Undefined \/ ~Completes(Get(handler))) =>
                            /\ ~response.success
                            /\ response.error # Undefined
                            /\ response.data = Undefined
                     /\ req.requestId # Undefined =>
                            response.requestId = req.requestId]_vars

\* A request with a requestId whose handler rejected has been answered.
C21_Witness ==
    /\ request # Undefined
    /\ Get(request).requestId # Undefined
    /\ Handled(Get(request)) = Some("rejectsError")
    /\ Len(responses) = 1
    /\ ~responses[1].success

----------------------------------------------------------------------------
(* Properties of calculateOptimalSegmentSize *)

\* Bytes of one row of the element at two rows per row kept (the safety
\* factor): width x devicePixelRatio x 4 x 2.
RowCost(input) == input.elementWidth * input.devicePixelRatio * 4 * 2

\* n = floor(memoryThreshold / (width x devicePixelRatio x 4) / 2)
IsRowBudget(n, input) ==
    /\ n * RowCost(input) <= input.memoryThreshold
    /\ input.memoryThreshold < (n + 1) * RowCost(input)

\* C22 as stated: the result is that floor clamped into [100, configured
\* maximum], never below 100 and never above the configured maximum.
C22_SegmentSizeWithinConfiguredRange ==
    optimalSize # Undefined =>
        LET input == Get(sizeInput)
            size == Get(optimalSize)
        IN  /\ size >= 100
            /\ size <= input.maxSegmentSize
            /\ (100 < size /\ size < input.maxSegmentSize) =>
                   IsRowBudget(size, input)

\* C22 amended: the result is never below 100 and never above the larger
\* of 100 and the configured maximum; strictly between the two it is the
\* floor; it is the configured maximum above 100 only if the floor is at
\* least that, and 100 only if the configured maximum or the floor is at
\* most 100.
C22_SegmentSizeAtLeastMinimum ==
    optimalSize # Undefined =>
        LET input == Get(sizeInput)
            size == Get(optimalSize)
        IN  /\ size >= 100
            /\ size <= Max(100, input.maxSegmentSize)
            /\ (100 < size /\ size < input.maxSegmentSize) =>
                   IsRowBudget(size, input)
            /\ (100 < size /\ size = input.maxSegmentSize) =>
                   size * RowCost(input) <= input.memoryThreshold
            /\ size = 100 =>
                   \/ input.maxSegmentSize <= 100
                   \/ input.memoryThreshold < 101 * RowCost(input)

\* The memory budget decides: the result lies strictly between the
\* minimum and the configured maximum.
C22_Witness ==
    /\ optimalSize # Undefined
    /\ 100 < Get(optimalSize)
    /\ Get(optimalSize) < Get(sizeInput).maxSegmentSize

----------------------------------------------------------------------------
(* Properties of processSegmentsProgressively *)

\* The number of calls of `processor` made with the item at `position`.
TimesInvoked(position) ==
    Cardinality({n \in 1..Len(processorCalls) :
                    processorCalls[n].segment = position})

\* Result i is what the processor gave for item i called with index i - 1.
InInputOrder(values) ==
    /\ Len(values) = Len(items)
    /\ \A i \in 1..Len(items) : values[i] = ProcessorValue(i, i - 1)

SettledCall == ppc = "settled" /\ processed # Undefined

----------------------------------------------------------------------------
(* Properties of a session whose stage fails *)

\* The failure the stage's operation rejected with last is classified
\* ElementNotFound or PermissionDenied.
TerminalStageFailure ==
    /\ stageError # Undefined
    /\ classifyError(Get(stageError)) \in NotRetryableKinds

\* C24: a stage failure classified ElementNotFound or PermissionDenied
\* ends the session at once: after it the session has failed, no stage is
\* running or about to run, and the outer retry is not about to run the
\* pipeline again.
C24_TerminalFailureEndsSession ==
    TerminalStageFailure =>
        /\ spc = "failed"
        /\ stage = "none"

\* The ERROR_OCCURRED messages the .catch handler of the session has sent.
ErrorNotifications ==
    {i \in 1..Len(notifications) :
        /\ notifications[i].type = "ERROR_OCCURRED"
        /\ notifications[i].sentBy = "catch"}

\* C25: when a stage has failed for good and the session with it, the
\* error notification of the session carries the kind that classifies the
\* failure of the stage and the severity of that kind.
C25_NotificationCarriesOriginalKind ==
    (spc = "failed" /\ stageError # Undefined) =>
        \A i \in ErrorNotifications :
            LET original == createErrorInfo(classifyError(Get(stageError)))
            IN  /\ notifications[i].error = original.code
                /\ notifications[i].severity = original.severity

----------------------------------------------------------------------------
(* Properties of the capture stage *)

\* The viewport captures made so far, in the whole session, at the i-th
\* planned offset.
CapturesAt(i) ==
    {n \in 1..Len(calls) :
        /\ calls[n].op = "capture"
        /\ calls[n].reply = "ok"
        /\ calls[n].i = i}

\* C26: within one session each planned offset is captured at most once:
\* a step that fails is retried on its own and the segments captured
\* before it are kept, so none of them is captured a second time.
C26_OffsetCapturedAtMostOnce ==
    /\ \A i \in 1..SegmentLimit : Cardinality(CapturesAt(i)) <= 1
    /\ (stageAttempt > 0 /\ cpc = "idle") =>
           Len(segments) = Cardinality({i \in 1..SegmentLimit :
                                           CapturesAt(i) # {}})

\* The calls a capture over the plan `plan` issues when none of them
\* fails: a reset, then a scroll, a capture and a measurement for each
\* offset in plan order, then a reset.
RECURSIVE LoopCalls(_, _)
LoopCalls(plan, i) ==
    IF i > Len(plan)
    THEN <<>>
    ELSE <<[op |-> "scroll", i |-> i, y |-> plan[i].y],
           [op |-> "capture", i |-> i, y |-> 0],
           [op |-> "measure", i |-> i, y |-> 0]>> \o LoopCalls(plan, i + 1)

ExpectedCalls(plan) ==
    <<[op |-> "reset", i |-> 0, y |-> 0]>> \o LoopCalls(plan, 1)
        \o <<[op |-> "reset", i |-> Len(plan) + 1, y |-> 0]>>

\* C27: the external calls of a capture are, in order, a prefix of: one
\* scroll reset, then for each planned offset in plan order a scroll to
\* it, one viewport capture and one measurement, then one scroll reset; a
\* call is issued only after every earlier one has settled without
\* rejecting; a capture that returns has issued all of them, and segment i
\* of its result carries segmentIndex i and the i-th planned offset.
C27_CallsInPlanOrder ==
    calls # <<>> =>
        LET expected == ExpectedCalls(scrollSegments)
        IN  /\ Len(calls) <= Len(expected)
            /\ \A n \in 1..Len(calls) :
                   /\ calls[n].op = expected[n].op
                   /\ calls[n].i = expected[n].i
                   /\ calls[n].y = expected[n].y
                   /\ n < Len(calls) => calls[n].reply # "rejected"
            /\ cpc = "captured" =>
                   /\ Len(calls) = Len(expected)
                   /\ Len(segments) = Len(scrollSegments)
                   /\ Get(captureResult).segments = segments
            /\ \A i \in 1..Len(segments) :
                   /\ segments[i].segmentIndex = i - 1
                   /\ segments[i].scrollPosition = scrollSegments[i]

\* A capture over three offsets has returned.
C27_Witness ==
    /\ cpc = "captured"
    /\ Len(scrollSegments) >= 3
    /\ Len(calls) = 3 * Len(scrollSegments) + 2

----------------------------------------------------------------------------
(* Properties of the stitcher's crops *)

\* The stitcher has composited two or more segments.
Composited ==
    /\ stitched # Undefined
    /\ Len(segments) >= 2
    /\ Get(stitched).kind = "raster"

\* The drawImage call the stitcher made for segment i.
DrawOf(i) == Get(stitched).draws[i]

\* The planned scroll of segment i did not advance past that of segment
\* i - 1.
NotAdvanced(i) ==
    i > 1 /\ segments[i].scrollPosition.y <= segments[i - 1].scrollPosition.y

\* C28: for every segment composited the overlap height is >= 0 and the
\* height it contributes is >= 0; a segment whose scroll did not advance
\* past its predecessor contributes exactly zero; the vertical write
\* offset never decreases from one segment to the next.
C28_ContributionsNeverNegative ==
    Composited =>
        /\ \A i \in 1..Len(segments) :
               /\ calculateOverlapHeight(segments, i, devicePixelRatio) >= 0
               /\ DrawOf(i).sh >= 0
               /\ NotAdvanced(i) => DrawOf(i).sh = 0
        /\ \A i \in 1..(Len(segments) - 1) :
               DrawOf(i).dy <= DrawOf(i + 1).dy

\* The source rectangle of a drawImage call lies inside the raster it
\* reads: it has an extent that is not negative, starts at or after the
\* raster's origin and ends at or before its far edges.
InsideSource(draw) ==
    /\ 0 <= draw.sw
    /\ 0 <= draw.sh
    /\ 0 <= draw.sx
    /\ 0 <= draw.sy
    /\ draw.sx + draw.sw <= Fx(draw.img.width)
    /\ draw.sy + draw.sh <= Fx(draw.img.height)

\* C29: every source rectangle the cropper (one segment) or the stitcher
\* (several) has read lies inside the raster it was read from, also after
\* the overlap adjustment; a request that was out of range was clamped
\* and raised no error.
C29_SourceRectanglesInsideRaster ==
    (/\ stitched # Undefined
     /\ Len(segments) >= 1
     /\ \A i \in 1..Len(segments) : segments[i].elementRect # Undefined) =>
        /\ Get(stitched).kind = "raster"
        /\ \A n \in 1..Len(Get(stitched).draws) :
               InsideSource(Get(stitched).draws[n])

\* The failed call i of the operation was followed by a wait and another
\* turn of the loop.
Retried(i) == i <= Len(delays)

\* C30: handleError goes round its loop again after a failed call only if
\* the classified kind of that failure is in config.retryableErrors; a
\* kind left out of the list is not retried, even when ERROR_DEFINITIONS
\* has it retryable.
C30_RetriesOnlyConfiguredKinds ==
    \A i \in 1..MaxAttemptsBound :
        Retried(i) =>
            classifyError(operation[i].message) \in retryableErrors

\* handleError has left its loop.
LoopLeft == hpc \in {"after", "done"}

\* C31: the n-th wait of handleError, the one after the n-th failed call,
\* lasts delayMs * backoffMultiplier^(n - 1); with a multiplier >= 1 the
\* waits never get shorter; and no wait follows the last call: once the
\* loop is left there is one wait less than calls, and never more than
\* maxAttempts - 1.
C31_BackoffDelays ==
    /\ \A n \in 1..Len(delays) :
           /\ ~operation[n].ok
           /\ delays[n] = delayMs * Pow(backoffMultiplier, n - 1)
    /\ backoffMultiplier >= 1 =>
           \A n \in 1..(Len(delays) - 1) : delays[n] <= delays[n + 1]
    /\ Len(delays) <= maxAttempts - 1
    /\ LoopLeft => Len(delays) = invocations - 1

\* C31 witness: with the backoff test's configuration (maxAttempts 3,
\* delayMs 100, multiplier 2) two calls failed with "Screenshot capture
\* failed", handleError waited 100 and 200 ms, and the third call ended it.
C31_Witness ==
    /\ hpc = "done"
    /\ maxAttempts = 3
    /\ delayMs = 100
    /\ backoffMultiplier = 2
    /\ operation[1] = Rejects({"capture", "screenshot"})
    /\ operation[2] = Rejects({"capture", "screenshot"})
    /\ invocations = 3
    /\ delays = <<100, 200>>

\* The offsets of plan s that are not final are the multiples 0, 1, 2, ...
\* of visibleHeight * factor (factor in tenths).
NonFinalOnGrid(s, factor) ==
    \A i \in 1..Len(s) :
        ~s[i].isComplete =>
            s[i].y = (i - 1) * elementInfo.visibleHeight * factor

\* The plan s of an element four times as high as its visible part is the
\* example's: four offsets at multiples of 0.85 * visibleHeight and the
\* final one at totalHeight - visibleHeight (2400 and 600 give 0, 510,
\* 1020, 1530 and 1800).
IsExamplePlan(s) ==
    /\ Len(s) = 5
    /\ \A k \in 0..3 :
           /\ s[k + 1].y * 10 = k * elementInfo.visibleHeight * 85
           /\ ~s[k + 1].isComplete
    /\ s[5].y = TotalScrollHeight(elementInfo)
    /\ s[5].isComplete

\* C32: the offsets of a plan that are not final are k * step for k = 0,
\* 1, 2, ... with step = visibleHeight * overlap factor, the factor being
\* the same for both callers (the processor's planner and the content
\* script's); and an element with totalHeight = 4 * visibleHeight gets the
\* plan of the example.
C32_OneOverlapFactor ==
    Scrolls(elementInfo) =>
        /\ planned = {"processor", "content"} =>
               \E factor \in 1..Scale :
                   /\ NonFinalOnGrid(scrollSegments, factor)
                   /\ NonFinalOnGrid(contentSegments, factor)
        /\ elementInfo.totalHeight = 4 * elementInfo.visibleHeight =>
               \A s \in PlansRun : IsExamplePlan(s)

\* captureLongScreenshot has returned its segments or thrown.
CaptureSettled == cpc \in {"captured", "failed"}

\* C33: a capture that is waiting for an external call (a scroll
\* instruction, a viewport capture, a measurement, a reset) does not wait
\* forever: the call settles or a timeout turns it into a failure, so the
\* capture returns or throws in the end.
C33_NeverWaitsForever == Running ~> CaptureSettled

\* The pass was made with the usage ratio above the cleanup threshold.
AboveCleanupThreshold(pass) ==
    /\ pass.memInfo # Undefined
    /\ Get(pass.memInfo) > memoryCleanupThreshold

\* Pass n started at least the cleanup interval after every earlier pass.
AfterInterval(n) ==
    \A k \in 1..(n - 1) :
        cleanups[n].at - cleanups[k].at >= memoryCleanupInterval

\* C34: every cleanup pass was started with the usage ratio above the
\* cleanup threshold and at least the cleanup interval (5000 ms) after the
\* previous pass, so no two passes are less than the interval apart.
C34_CleanupOnlyAfterCooldown ==
    \A n \in 1..Len(cleanups) :
        /\ AboveCleanupThreshold(cleanups[n])
        /\ cleanups[n].at - cleanups[n].last >= memoryCleanupInterval
        /\ AfterInterval(n)

\* The passes asked for by the memory check: before a batch, and by
\* monitorMemoryUsage.
CheckedPasses == {"check", "monitor"}

\* C34 amended: a pass started by the memory check (before a batch, or by
\* monitorMemoryUsage, which also wants the ratio above the warning
\* threshold) was started with the ratio above the cleanup threshold and at
\* least the interval after every earlier pass of any kind; the pass
\* between two batches is made whenever enableMemoryCleanup is set, whatever
\* the ratio and the time since the last pass.
C34_CheckedCleanupOnlyAfterCooldown ==
    \A n \in 1..Len(cleanups) :
        /\ cleanups[n].by \in CheckedPasses =>
               /\ AboveCleanupThreshold(cleanups[n])
               /\ cleanups[n].at - cleanups[n].last >= memoryCleanupInterval
               /\ AfterInterval(n)
        /\ cleanups[n].by = "monitor" =>
               Get(cleanups[n].memInfo) > memoryWarningThreshold
        /\ cleanups[n].by \notin CheckedPasses =>
               /\ cleanups[n].by = "betweenBatches"
               /\ enableMemoryCleanup
               /\ enableProgressiveLoading

\* C34 witness: the memory check started a pass after earlier passes had
\* been made, and a pass between two batches was made less than the
\* interval after the one before it.
C34_Witness ==
    /\ \E n \in 2..Len(cleanups) : cleanups[n].by \in CheckedPasses
    /\ \E n \in 2..Len(cleanups) :
           /\ cleanups[n].by = "betweenBatches"
           /\ cleanups[n].at - cleanups[n - 1].at < memoryCleanupInterval

\* The pipeline of the session is running: an attempt has put its entry
\* in activeSessions and has neither returned nor thrown.
PipelineRunning == spc \in {"dpr", "stage", "finish"}

\* C35: while the pipeline of a session is running its entry is in
\* activeSessions, also in a retry attempt after a failed one whose
\* clean-up timer is still pending, so that no progress notification is
\* dropped and a session that has returned has had its completion
\* notified.
C35_EntryStaysWhileRunning ==
    /\ PipelineRunning => sessionInMap
    /\ spc = "returned" =>
           \E n \in 1..Len(notifications) : notifications[n] = CompleteMessage

\* Session id has scrolled the element to an offset and has not yet
\* captured it.
AwaitingCapture(id) == captures[id].long /\ captures[id].pc = "capture"

\* C36: between a session's scroll to an offset and its capture of that
\* offset no step of another session on the same tab changes the scroll
\* position of the element.
C36_NoScrollBetweenScrollAndCapture ==
    [][\A id \in SessionIds :
           (AwaitingCapture(id) /\ captures'[id] = captures[id]) =>
               tab'.scrollTop = tab.scrollTop]_vars


----------------------------------------------------------------------------
\* Completion after the download stage

\* The download stage ended well: its last call did not reject.
DownloadSucceeded == stageError = Undefined

\* C37: a session is marked completed, and its completion is notified, only
\* if the download succeeded or the encoded image was stored for a manual
\* save.
C37_CompletedOnlyWhenSaved ==
    (spc = "returned" /\ (session.status = "completed"
                             \/ HasMessage("SCREENSHOT_COMPLETE"))) =>
        (DownloadSucceeded \/ manualSaveStore)

----------------------------------------------------------------------------
\* handleManualSave and the MANUAL_SAVE_REQUEST handler

\* The largest number of manual-save requests sent for the session.
MaxSaveRequests == 3

\* The handler's answers: the status it returns, or the message of the
\* error it throws (both wrappers put their own prefix before it).
SaveCompleted == [ok |-> TRUE, message |-> "manual_save_completed"]

SaveFailed(message) == [ok |-> FALSE, message |-> message]

\* A handleManualSave that leaves the stored data where it is.
handleManualSave_keepsData(stored, fetched, downloaded, removed) ==
    IF ~stored
    THEN [store |-> FALSE, started |-> FALSE,
          response |-> SaveFailed("Manual save data not found")]
    ELSE IF ~fetched
    THEN [store |-> TRUE, started |-> FALSE,
          response |-> SaveFailed("fetch failed")]
    ELSE IF ~downloaded
    THEN [store |-> TRUE, started |-> TRUE,
          response |-> SaveFailed("download failed")]
    ELSE [store |-> TRUE, started |-> TRUE, response |-> SaveCompleted]

\* handleManualSave with chrome.storage.local holding the session's data or
\* not, and with the outcomes of fetch, chrome.downloads.download and
\* chrome.storage.local.remove: the data's fate, whether the download was
\* started, and the answer.  Every error is thrown again from the catch.
handleManualSave(stored, fetched, downloaded, removed) ==
    IF ~stored
    THEN [store |-> FALSE, started |-> FALSE,
          response |-> SaveFailed("Manual save data not found")]
    ELSE IF ~fetched
    THEN [store |-> TRUE, started |-> FALSE,
          response |-> SaveFailed("fetch failed")]
    ELSE IF ~downloaded
    THEN [store |-> TRUE, started |-> TRUE,
          response |-> SaveFailed("download failed")]
    ELSE IF ~removed
    THEN [store |-> TRUE, started |-> TRUE,
          response |-> SaveFailed("remove failed")]
    ELSE [store |-> FALSE, started |-> TRUE, response |-> SaveCompleted]

\* A MANUAL_SAVE_REQUEST for the session arrives and is answered.
ManualSaveRequest ==
    /\ spc # "off"
    /\ Len(saveRequests) < MaxSaveRequests
    /\ \E fetched \in BOOLEAN, downloaded \in BOOLEAN, removed \in BOOLEAN :
          LET result == handleManualSave(manualSaveStore, fetched,
                                         downloaded, removed)
          IN  /\ manualSaveStore' = result.store
              /\ downloads' = IF result.started THEN downloads + 1
                              ELSE downloads
              /\ saveRequests' = Append(saveRequests, result.response)
    /\ UNCHANGED <<planVars, captureVars, spc, session, sessionInMap,
                   outerAttempt, stage, stageAttempt, timers, notifications,
                   thrown, stageError, retryVars, classifyVars, convertVars,
                   filenameVars, tooltipVars, routerVars, optimizerVars,
                   progressiveVars, captures, selectionVars>>

NextManualSave ==
    \/ SessionStart
    \/ BeginAttempt
    \/ DetectDpr
    \/ StageSucceeds
    \/ StageFails
    \/ Finish
    \/ TimerFires
    \/ ManualSaveRequest

SpecManualSave == InitSession /\ [][NextManualSave]_vars

Completed(i) == saveRequests[i] = SaveCompleted

NotFound(i) == saveRequests[i] = SaveFailed("Manual save data not found")

DownloadFailed(i) == saveRequests[i] = SaveFailed("download failed")

----------------------------------------------------------------------------
(* Element selection mode of the content script *)

\* The page elements the mouse can reach.
MaxElements == 2

\* The largest number of requests waiting for the background's answer.
MaxPending == 2

SelectedRequest(target) == [type |-> "ELEMENT_SELECTED", element |-> target]

ExitRequest == [type |-> "EXIT_SCREENSHOT_MODE", element |-> 0]

\* The sequence without its i-th entry.
Without(seq, i) ==
    [k \in 1..(Len(seq) - 1) |-> seq[IF k < i THEN k ELSE k + 1]]

Elements == 1..MaxElements

\* An event target: a page element, or (the last number) one of the nodes
\* the content script added itself: overlay, highlight or tooltip.
Targets == 1..(MaxElements + 1)

IsOwnNode(target) == target > MaxElements

Keys == {"Escape", "Enter"}

\* The part of the content script's state selection mode works on.
Selection ==
    [isSelectionMode |-> isSelectionMode, overlayElement |-> overlayElement,
     overlays |-> overlays, highlightDiv |-> highlightDiv,
     highlights |-> highlights, listeners |-> listeners,
     currentHoveredElement |-> currentHoveredElement,
     tooltipElement |-> tooltipElement]

\* The element showTooltip builds around `text`; it arms no timer.
TextTooltip(text) ==
    Some([id |-> 0, shownBy |-> "showTooltip",
          classes |-> {"screenshot-tooltip"}, closeButton |-> FALSE,
          severity |-> "", text |-> text])

createOverlay(s) ==
    IF s.overlayElement THEN s
    ELSE [s EXCEPT !.overlayElement = TRUE, !.overlays = @ + 1]

removeOverlay(s) ==
    IF s.overlayElement
    THEN [s EXCEPT !.overlayElement = FALSE, !.overlays = @ - 1]
    ELSE s

\* addEventListener with the same function and capture flag registers once.
addEventListeners(s) == [s EXCEPT !.listeners = TRUE]

removeEventListeners(s) == [s EXCEPT !.listeners = FALSE]

removeHighlight(s) ==
    IF s.highlightDiv
    THEN [s EXCEPT !.highlightDiv = FALSE, !.highlights = @ - 1]
    ELSE s

highlightElement(s) ==
    [removeHighlight(s) EXCEPT !.highlightDiv = TRUE, !.highlights = @ + 1]

showSelectionTooltip(s, text) ==
    [s EXCEPT !.tooltipElement = TextTooltip(text)]

updateTooltip(s, target) ==
    IF s.tooltipElement = Undefined THEN s
    ELSE [s EXCEPT !.tooltipElement =
                       Some([Get(@) EXCEPT !.text = <<"click", target>>])]

removeSelectionTooltip(s) == [s EXCEPT !.tooltipElement = Undefined]

\* A startElementSelection that does not look at isSelectionMode.
startElementSelection_noGuard(s) ==
    showSelectionTooltip(
        addEventListeners(createOverlay([s EXCEPT !.isSelectionMode = TRUE])),
        <<"instructions">>)

startElementSelection(s) ==
    IF s.isSelectionMode THEN s
    ELSE showSelectionTooltip(
             addEventListeners(
                 createOverlay([s EXCEPT !.isSelectionMode = TRUE])),
             <<"instructions">>)

exitElementSelection(s) ==
    IF ~s.isSelectionMode THEN s
    ELSE [removeSelectionTooltip(
              removeOverlay(
                  removeHighlight(
                      removeEventListeners(
                          [s EXCEPT !.isSelectionMode = FALSE]))))
             EXCEPT !.currentHoveredElement = 0]

handleMouseOver(s, target) ==
    IF ~s.isSelectionMode THEN s
    ELSE IF IsOwnNode(target) THEN s
    ELSE IF target = s.currentHoveredElement THEN s
    ELSE updateTooltip(
             highlightElement([s EXCEPT !.currentHoveredElement = target]),
             target)

\* `relatedTarget` is 0 for null.
handleMouseOut(s, target, relatedTarget) ==
    IF ~s.isSelectionMode THEN s
    ELSE IF relatedTarget # 0 /\ IsOwnNode(relatedTarget) THEN s
    ELSE IF target = s.currentHoveredElement
    THEN [removeHighlight(s) EXCEPT !.currentHoveredElement = 0]
    ELSE s

handleKeyDown(s, key) ==
    IF ~s.isSelectionMode THEN s
    ELSE IF key = "Escape" THEN exitElementSelection(s)
    ELSE s

\* Whether handleClick hands the target to selectElement.
ClickSelects(s, target) == s.isSelectionMode /\ ~IsOwnNode(target)

\* The content script's state becomes `s`.
Becomes(s) ==
    /\ isSelectionMode' = s.isSelectionMode
    /\ overlayElement' = s.overlayElement
    /\ overlays' = s.overlays
    /\ highlightDiv' = s.highlightDiv
    /\ highlights' = s.highlights
    /\ listeners' = s.listeners
    /\ currentHoveredElement' = s.currentHoveredElement
    /\ tooltipElement' = s.tooltipElement

notSelectionVars ==
    <<planVars, captureVars, sessionVars, retryVars, classifyVars,
      convertVars, filenameVars, routerVars, optimizerVars, progressiveVars,
      captures, saveRequests, tooltipTimers, shown, dismissals>>

InitSelection ==
    /\ BaseIdle
    /\ LaterIdle

\* The START_SCREENSHOT_MODE handler.
StartScreenshotMode ==
    /\ Becomes(startElementSelection(Selection))
    /\ UNCHANGED <<pendingRequests, notSelectionVars>>

\* The EXIT_SCREENSHOT_MODE handler.
ExitScreenshotMode ==
    /\ Becomes(exitElementSelection(Selection))
    /\ UNCHANGED <<pendingRequests, notSelectionVars>>

\* A mouseover event reaches the registered listener.
MouseOver ==
    /\ listeners
    /\ \E target \in Targets : Becomes(handleMouseOver(Selection, target))
    /\ UNCHANGED <<pendingRequests, notSelectionVars>>

MouseOut ==
    /\ listeners
    /\ \E target \in Targets, relatedTarget \in {0} \cup Targets :
          Becomes(handleMouseOut(Selection, target, relatedTarget))
    /\ UNCHANGED <<pendingRequests, notSelectionVars>>

\* A keydown event: Escape also sends EXIT_SCREENSHOT_MODE.
KeyDown ==
    /\ listeners
    /\ Len(pendingRequests) < MaxPending
    /\ \E key \in Keys :
          /\ Becomes(handleKeyDown(Selection, key))
          /\ pendingRequests' =
                 IF isSelectionMode /\ key = "Escape"
                 THEN Append(pendingRequests, ExitRequest)
                 ELSE pendingRequests
    /\ UNCHANGED notSelectionVars

\* A click: selectElement sends ELEMENT_SELECTED and waits for the answer.
Click ==
    /\ listeners
    /\ Len(pendingRequests) < MaxPending
    /\ \E target \in Targets :
          /\ ClickSelects(Selection, target)
          /\ pendingRequests' =
                 Append(pendingRequests, SelectedRequest(target))
    /\ Becomes(Selection)
    /\ UNCHANGED notSelectionVars

\* The background's answer to a request arrives.  selectElement waits for
\* the answer to its ELEMENT_SELECTED: success leaves selection mode, a
\* failure or a rejected request shows a tooltip.  Nobody waits for the
\* answer to EXIT_SCREENSHOT_MODE.
RequestAnswered ==
    /\ \E i \in 1..Len(pendingRequests) :
          /\ pendingRequests' = Without(pendingRequests, i)
          /\ IF pendingRequests[i].type = "ELEMENT_SELECTED"
             THEN \E outcome \in {"success", "failed", "error"} :
                     Becomes(IF outcome = "success"
                             THEN exitElementSelection(Selection)
                             ELSE showSelectionTooltip(Selection,
                                                       <<outcome>>))
             ELSE Becomes(Selection)
    /\ UNCHANGED notSelectionVars

NextSelection ==
    \/ StartScreenshotMode
    \/ ExitScreenshotMode
    \/ MouseOver
    \/ MouseOut
    \/ KeyDown
    \/ Click
    \/ RequestAnswered

SpecSelection == InitSelection /\ [][NextSelection]_vars

\* Starting while selection mode is active, and exiting while it is not,
\* change nothing.
IdleCallsChangeNothing ==
    /\ (StartScreenshotMode /\ isSelectionMode) =>
           UNCHANGED <<selectionVars, tooltipVars>>
    /\ (ExitScreenshotMode /\ ~isSelectionMode) =>
           UNCHANGED <<selectionVars, tooltipVars>>

AtMostOneOverlay == overlays <= 1

OverlayAndListenersFollowMode ==
    /\ (overlays > 0) = isSelectionMode
    /\ overlayElement = isSelectionMode
    /\ listeners = isSelectionMode

HighlightFollowsHover ==
    /\ highlights <= 1
    /\ highlightDiv = (highlights = 1)
    /\ (highlights = 1) = (isSelectionMode /\ currentHoveredElement # 0)

=============================================================================
